---- MODULE Spec2Model ----
(***************************************************************************)
(* A model of the off-chain coordinator of the Mithras / Hermes Vault      *)
(* contracts: the Merkle tree mirror (Tree), the note scheme, the          *)
(* withdrawal circuit's constraints and the coordinator (Frontend) with    *)
(* its SendDeposit and SendWithdrawal operations, run against a model of   *)
(* the on-chain application (leaves, root window, nullifier boxes).        *)
(*                                                                         *)
(* Byte strings and field elements are sequences of integers.  A value     *)
(* that is not a hash is the one-element sequence <<n>>, n >= 0.  The hash *)
(* of m inputs is the term <<-m>> \o x1 \o ... \o xm: the hash function is *)
(* modelled as collision free, so two hashes are equal exactly when their  *)
(* inputs are.                                                             *)
(***************************************************************************)
EXTENDS Integers, Sequences, FiniteSets, TLC

(***************************************************************************)
(* Bounds of the model.                                                    *)
(***************************************************************************)
\* TreeConfig.Depth of the tree under test (32 in production, 16 in TestMerkle)
Depth == 3
\* the most leaves the Tree specification appends
MaxTreeLeaves == 5
\* the most leaves the coordinator mirrors and the application holds
MaxLeaves == 5
\* the most leaves other coordinators insert
MaxForeign == 2
\* size of the on-chain root window (RootsCount, 50 in production)
WindowSize == 2
\* width in bits of the unsigned integers of the coordinator (64 in Go)
UintBits == 24
\* the order of the group generated by the base point of the Edwards curve is
\* a prime: the GroupOrderIndex-th one
GroupOrderIndex == 4
\* the most leaves of the deposit and withdrawal scenario
MaxScenarioLeaves == 3
\* runs of the deploy pipeline, and edits of source files between them
MaxRuns == 2
MaxEdits == 1
\* the amounts of a circuit assignment lie within MaxAmount of 0, on either
\* side of it in the scalar field
MaxAmount == 2
\* the id a fresh ledger gives to the first application created on it
FirstAppId == 1001

(***************************************************************************)
(* Program constants                                                       *)
(***************************************************************************)
MerkleTreeLevels == 32
RootsCount == 50
DepositMinimumAmount == 1000000
WithdrawalMinFeeMultiplier == 180
NullifierMbr == 15300
MinTxnFee == 1000
VerifierTopLevelTxnNeeded == 8
DepositMinFeeMultiplier == 56

\* mutant: the box of the tree is sized like the box of the roots
InitialMbrSameBoxes ==
    100000 + 2500 + 400 * (5 + 32 * RootsCount) + 2500 + 400 * (7 + 32 * RootsCount)

\* APP address MBR after initialization
InitialMbr ==
    100000 + 2500 + 400 * (5 + 32 * RootsCount) + 2500 + 400 * (7 + 32 * MerkleTreeLevels)

(***************************************************************************)
(* Hash function (config.Hash = mimc.NewMimcF), variadic over byte strings *)
(***************************************************************************)
RECURSIVE Concat(_)
Concat(args) ==
    IF Len(args) = 0 THEN <<>> ELSE Head(args) \o Concat(Tail(args))

Hash(args) == <<0 - Len(args)>> \o Concat(args)

ZeroValue == <<0>>

\* GenerateZeroHashes(depth, zeroValue): subtree[0] = Hash(zeroValue),
\* subtree[i] = Hash(subtree[i-1], subtree[i-1]).  Index i is position i+1.
RECURSIVE GenerateZeroHashes(_, _)
GenerateZeroHashes(depth, zeroValue) ==
    IF depth = 0 THEN << Hash(<<zeroValue>>) >>
    ELSE LET sub == GenerateZeroHashes(depth - 1, zeroValue)
         IN  Append(sub, Hash(<<sub[depth], sub[depth]>>))

\* config.Tree.ZeroHashes / TreeConfig.ZeroHashes
ZeroHashes == GenerateZeroHashes(Depth, ZeroValue)

Pow2(n) == 2 ^ n

\* the first primes
Primes == <<2, 3, 5, 7, 11, 13, 17, 19>>

\* order of the group generated by the base point of the Edwards curve
GroupOrder == Primes[GroupOrderIndex]

(***************************************************************************)
(* State                                                                   *)
(***************************************************************************)
VARIABLES
    subTree,      \* Tree.subTree, positions 1..Depth+1 hold subTree[0..Depth]
    zeroHashes,   \* Tree.zeroHashes, the same slice as subTree (see NewTree)
    leafHashes,   \* Tree.leafHashes
    proofRes,     \* outcome of the last createMerkleProof / verify call
    Deposits,     \* Frontend.Deposits (the notes of the deposits)
    Withdrawals,  \* Frontend.Withdrawals (the change notes of the withdrawals)
    pending,      \* the withdrawal group composed and not yet executed
    res,          \* the last call of the coordinator and its outcome
    chainLeaves,  \* on-chain: the leaves inserted by the application
    roots,        \* on-chain: the root window, newest first
    nullifiers,   \* on-chain: the nullifier boxes
    ecies,        \* an ECIES transport: its inputs, the ciphertext, the outcome
    setup,        \* the deploy pipeline: its position, the files, the ledger
    circuit       \* an assignment of the withdrawal circuit and its check

treeVars == <<subTree, zeroHashes, leafHashes>>
localVars == <<leafHashes, Deposits, Withdrawals>>
frontendVars == <<Deposits, Withdrawals, pending, res>>
chainVars == <<chainLeaves, roots, nullifiers>>
\* the state outside the tree, the coordinator and the application
auxVars == <<ecies, setup, circuit>>
vars == <<subTree, zeroHashes, leafHashes, proofRes, Deposits, Withdrawals,
          pending, res, chainLeaves, roots, nullifiers, ecies, setup, circuit>>

(***************************************************************************)
(* Tree                                                                    *)
(***************************************************************************)
\* A tree value: the three slices of the Tree struct.
TreeOf(sub, zero, leaves) == [subTree |-> sub, zeroHashes |-> zero, leafHashes |-> leaves]

\* NewTree(c): subTree and zeroHashes are both set to the slice c.ZeroHashes,
\* so the two fields share one backing array.
NewTree(c) == TreeOf(c, c, <<>>)

\* t.subTree[i] = v.  The store goes to the backing array that t.zeroHashes
\* shares with t.subTree since NewTree.
StoreSubTree(t, i, v) ==
    [t EXCEPT !.subTree[i + 1] = v, !.zeroHashes[i + 1] = v]

\* getRoot: t.subTree[len(t.subTree)-1]
getRoot(t) == t.subTree[Len(t.subTree)]

\* The loop of addLeaf from level i on.
RECURSIVE addLeafLoop(_, _, _, _)
addLeafLoop(t, i, index, currentHash) ==
    IF i = Depth
    THEN StoreSubTree(t, Depth, currentHash)
    ELSE IF index % 2 = 0
         THEN LET t1 == StoreSubTree(t, i, currentHash)
                  left == currentHash
                  right == t1.zeroHashes[i + 1]
              IN  addLeafLoop(t1, i + 1, index \div 2, Hash(<<left, right>>))
         ELSE LET left == t.subTree[i + 1]
                  right == currentHash
              IN  addLeafLoop(t, i + 1, index \div 2, Hash(<<left, right>>))

\* addLeaf(leaf): the tree after the call; the returned index is
\* len(t.leafHashes) - 1 of the new tree.
addLeaf(t, leaf) ==
    LET t1 == [t EXCEPT !.leafHashes = Append(t.leafHashes, leaf)]
    IN  addLeafLoop(t1, 0, Len(t1.leafHashes) - 1, leaf)

\* A level with an odd number of nodes gets one more node, pad.
PadOdd(level, pad) ==
    IF Len(level) % 2 = 1 THEN Append(level, pad) ELSE level

\* nextLevel[j/2] = hashFunc(currentLevel[j], currentLevel[j+1])
HashPairs(level) ==
    [j \in 1..(Len(level) \div 2) |-> Hash(<<level[2 * j - 1], level[2 * j]>>)]

\* The loop of createMerkleProof from level i on.
RECURSIVE proofLoop(_, _, _, _, _)
proofLoop(t, i, index, currentLevel, proof) ==
    IF i = Depth
    THEN proof
    ELSE LET sibling == IF index % 2 = 0
                        THEN currentLevel[index + 2]
                        ELSE currentLevel[index]
             nextLevel == PadOdd(HashPairs(currentLevel), t.subTree[i + 2])
         IN  proofLoop(t, i + 1, index \div 2, nextLevel, Append(proof, sibling))

\* createMerkleProof(leafValue, index).  t.leafHashes[index] is read before
\* the range check, so an index past the end aborts the process.
createMerkleProof(t, leafValue, index) ==
    IF index >= Len(t.leafHashes)
    THEN [proof |-> <<>>, err |-> "panic: index out of range"]
    ELSE IF t.leafHashes[index + 1] # Hash(<<leafValue>>)
    THEN [proof |-> <<>>, err |-> "leaf value does not map to hash at index"]
    ELSE [proof |-> proofLoop(t, 0, index,
                              PadOdd(t.leafHashes, t.subTree[1]), <<leafValue>>),
          err |-> "nil"]

\* The loop of verify from path position i (0-based) on.
RECURSIVE verifyLoop(_, _, _, _)
verifyLoop(path, i, leafIndex, currentHash) ==
    IF i >= Len(path)
    THEN currentHash
    ELSE verifyLoop(path, i + 1, leafIndex \div 2,
                    IF leafIndex % 2 = 0
                    THEN Hash(<<currentHash, path[i + 1]>>)
                    ELSE Hash(<<path[i + 1], currentHash>>))

\* verify(leafIndex, path, root)
verify(leafIndex, path, root) ==
    IF Len(path) = 0 THEN FALSE
    ELSE verifyLoop(path, 1, leafIndex, Hash(<<path[1]>>)) = root

\* The root of a tree whose first leaves are `leaves` and whose other leaves
\* are `pad`, hashed bottom-up over 2^depth leaves (ComputeRootFromLeaves).
RECURSIVE RootOfLevel(_, _)
RootOfLevel(level, n) ==
    IF n = 0 THEN level[1] ELSE RootOfLevel(HashPairs(level), n - 1)

RootFromLeaves(leaves, pad, depth) ==
    RootOfLevel([i \in 1..Pow2(depth) |->
                    IF i <= Len(leaves) THEN leaves[i] ELSE pad], depth)

\* Tree.ComputeRootFromLeaves pads with t.subTree[0]
ComputeRootFromLeaves(t) == RootFromLeaves(t.leafHashes, t.subTree[1], Depth)

(***************************************************************************)
(* The Tree on its own: appends and proofs (TestMerkle)                    *)
(***************************************************************************)
\* leaf pre-images handed to the tree
LeafValues == { <<11>>, <<12>> }

NoProof == [op |-> "none", index |-> 0, leafValue |-> <<>>, proof |-> <<>>,
            err |-> "nil", verified |-> FALSE]

TheTree == TreeOf(subTree, zeroHashes, leafHashes)

SetTree(t) ==
    /\ subTree' = t.subTree
    /\ zeroHashes' = t.zeroHashes
    /\ leafHashes' = t.leafHashes

NoCall == [op |-> "none", err |-> "nil"]
NoPending == [set |-> FALSE]

\* nothing outside the tree, the coordinator and the application has run
AuxIdle ==
    /\ ecies = [stage |-> "none"]
    /\ setup = [pc |-> "none"]
    /\ circuit = [stage |-> "none"]

InitTree ==
    LET t == NewTree(ZeroHashes)
    IN  /\ subTree = t.subTree
        /\ zeroHashes = t.zeroHashes
        /\ leafHashes = t.leafHashes
        /\ proofRes = NoProof

\* tree.addLeaf(leaf) with leaf the hash of a leaf value
AddLeaf ==
    /\ Len(leafHashes) < MaxTreeLeaves
    /\ \E v \in LeafValues : SetTree(addLeaf(TheTree, Hash(<<v>>)))
    /\ proofRes' = NoProof
    /\ UNCHANGED <<frontendVars, chainVars>>
    /\ UNCHANGED auxVars

\* tree.createMerkleProof(leafValue, index), then tree.verify(index, path,
\* tree.getRoot()) when a path is returned
CreateMerkleProof ==
    /\ \E v \in LeafValues, index \in 0..(MaxTreeLeaves - 1) :
          LET r == createMerkleProof(TheTree, v, index)
          IN  proofRes' = [op |-> "proof", index |-> index, leafValue |-> v,
                           proof |-> r.proof, err |-> r.err,
                           verified |-> IF r.err = "nil"
                                        THEN verify(index, r.proof, getRoot(TheTree))
                                        ELSE FALSE]
    /\ UNCHANGED <<treeVars, frontendVars, chainVars>>
    /\ UNCHANGED auxVars

\* the tree, the coordinator and the application after their construction
CoreInit ==
    /\ InitTree
    /\ Deposits = <<>>
    /\ Withdrawals = <<>>
    /\ pending = NoPending
    /\ res = NoCall
    /\ chainLeaves = <<>>
    /\ roots = << ZeroHashes[Depth + 1] >>
    /\ nullifiers = {}

TreeInit == CoreInit /\ AuxIdle

TreeNext == AddLeaf \/ CreateMerkleProof

SpecTree == TreeInit /\ [][TreeNext]_vars

(***************************************************************************)
(* Claims about the Tree                                                   *)
(***************************************************************************)
\* number of nodes of level i that cover the n inserted leaves
NodesAt(n, i) == (n + Pow2(i) - 1) \div Pow2(i)

\* position, at level i, of the sibling on the path of leaf index
SiblingAt(index, i) ==
    LET pos == index \div Pow2(i)
    IN  IF pos % 2 = 0 THEN pos + 1 ELSE pos - 1

\* C1: after any sequence of addLeaf calls on a tree made by NewTree, the
\* current root (getRoot) is the root of the inserted leaves padded to
\* 2^Depth leaves with the canonical zero hash zeroHashes[0], hashed bottom-up.
C1_RootIsPaddedRoot ==
    Len(leafHashes) <= Pow2(Depth) =>
        getRoot(TheTree) = RootFromLeaves(leafHashes, ZeroHashes[1], Depth)

\* the path returned for an inserted leaf and its index has Depth+1 elements,
\* starts with the leaf pre-image and verifies against getRoot
PathVerifies ==
    (/\ proofRes.op = "proof"
     /\ Len(leafHashes) <= Pow2(Depth)
     /\ proofRes.index < Len(leafHashes)
     /\ leafHashes[proofRes.index + 1] = Hash(<<proofRes.leafValue>>))
    => /\ proofRes.err = "nil"
       /\ Len(proofRes.proof) = Depth + 1
       /\ proofRes.proof[1] = proofRes.leafValue
       /\ proofRes.verified

\* C2: the path createMerkleProof returns for an inserted leaf and its index
\* has Depth+1 elements, starts with the leaf pre-image and verifies against
\* getRoot, and its siblings at positions beyond the inserted leaves are the
\* canonical zero hashes.
C2_ProofOfInsertedLeaf ==
    PathVerifies /\
    ((/\ proofRes.op = "proof"
      /\ proofRes.err = "nil"
      /\ Len(leafHashes) <= Pow2(Depth))
     => \A i \in 0..(Depth - 1) :
           SiblingAt(proofRes.index, i) >= NodesAt(Len(leafHashes), i)
           => proofRes.proof[i + 2] = ZeroHashes[i + 1])


(***************************************************************************)
(* Integers of the coordinator and of the circuit                          *)
(***************************************************************************)
\* a - b in uint64 arithmetic (wraps around)
Uint64Sub(a, b) == (a - b) % Pow2(UintBits)

\* the modulus of the scalar field, far above the range of the uint64
FieldModulus == Pow2(UintBits + 3) + 1

\* api.Sub(a, b): subtraction in the scalar field
FieldSub(a, b) == (a - b) % FieldModulus

\* api.AssertIsLessOrEqual(a, b) on two field elements
IsLessOrEqual(a, b) == (a % FieldModulus) <= (b % FieldModulus)

(***************************************************************************)
(* Keys, points and signatures.  A point is the multiple n of the base     *)
(* point, 0 <= n < GroupOrder; a private key is a scalar.                  *)
(***************************************************************************)
\* PointAffine.ScalarMultiplication(point, scalar)
ScalarMultiplication(point, scalar) == (point * scalar) % GroupOrder

\* the public key of a private key: scalar * base point
PublicKey(priv) == ScalarMultiplication(1, priv)

\* the coordinates of a point as 32-byte values
PointX(point) == <<100 + point>>
PointY(point) == <<200 + point>>

\* inputPrivkey.Sign(msg, hFunc)
Sign(priv, msg) == [signer |-> PublicKey(priv), msg |-> msg]

\* eddsa.Verify(curve, sig, msg, pubkey, hash) with pubkey given by (x, y)
EddsaVerify(sig, msg, x, y) ==
    /\ PointX(sig.signer) = x
    /\ PointY(sig.signer) = y
    /\ sig.msg = msg

(***************************************************************************)
(* Notes                                                                   *)
(***************************************************************************)
uint64ToBytes32(amount) == <<amount>>

\* 32-byte buffers ending in the byte 'k' and 'r'
kDomain == <<107>>
rDomain == <<114>>

\* Frontend.MakeCommitment(amount, k, r, pubkey)
MakeCommitment(amount, k, r, pubkey) ==
    Hash(<< Hash(<<uint64ToBytes32(amount), k, r, PointX(pubkey), PointY(pubkey)>>) >>)

\* Frontend.NewNote(amount, inputPrivKey, outputPubkey)
NewNote(amount, inputPrivKey, outputPubkey) ==
    LET sharedPoint == ScalarMultiplication(outputPubkey, inputPrivKey)
        sharedSecret == Hash(<<PointX(sharedPoint), PointY(sharedPoint)>>)
        k == Hash(<<sharedSecret, kDomain>>)
        r == Hash(<<sharedSecret, rDomain>>)
    IN  [Amount |-> amount,
         commitment |-> MakeCommitment(amount, k, r, outputPubkey),
         k |-> k,
         r |-> r,
         outputX |-> PointX(outputPubkey),
         outputY |-> PointY(outputPubkey),
         insertedIndex |-> -1]

\* Frontend.MakeNullifier(note)
MakeNullifier(note) == Hash(<<uint64ToBytes32(note.Amount), note.k>>)

\* Frontend.MakeLeafValue(n)
MakeLeafValue(n) ==
    Hash(<<uint64ToBytes32(n.Amount), n.k, n.r, n.outputX, n.outputY>>)

(***************************************************************************)
(* Circuits: the constraints of Define as a predicate on the assignment    *)
(***************************************************************************)
\* DepositCircuit.Define: hash(hash(Amount, K, R, OutputX, OutputY)) == Commitment
DepositCircuit(a) ==
    a.Commitment = Hash(<< Hash(<<uint64ToBytes32(a.Amount), a.K, a.R, a.OutputX, a.OutputY>>) >>)

\* mutant: the change is constrained with the wrapping subtraction of the
\* coordinator and the two range checks are missing
BalanceConstraintsWrapping(a) ==
    a.Change = Uint64Sub(Uint64Sub(a.Amount, a.Withdrawal), a.Fee)

\* the balance constraints of WithdrawalCircuit.Define
BalanceConstraints(a) ==
    /\ IsLessOrEqual(a.Withdrawal, a.Amount)
    /\ IsLessOrEqual(a.Fee, FieldSub(a.Amount, a.Withdrawal))
    /\ a.Change % FieldModulus = FieldSub(FieldSub(a.Amount, a.Withdrawal), a.Fee)

\* mutant: the leaf opening Path[0] == H(Amount, K, R, InputX, InputY) is missing
WithdrawalCircuitNoLeafOpening(a) ==
    /\ a.Nullifier = Hash(<<uint64ToBytes32(a.Amount), a.K>>)
    /\ a.Commitment =
         Hash(<< Hash(<<uint64ToBytes32(a.Change), a.K2, a.R2, a.OutputX, a.OutputY>>) >>)
    /\ EddsaVerify(a.Signature, a.Commitment, a.InputX, a.InputY)
    /\ BalanceConstraints(a)
    /\ Len(a.Path) = Depth + 1
    /\ verify(a.Index, a.Path, a.Root)

\* WithdrawalCircuit.Define.  The constraints are a conjunction; the Merkle
\* path (mp.VerifyProof) is written last.
WithdrawalCircuit(a) ==
    /\ a.Nullifier = Hash(<<uint64ToBytes32(a.Amount), a.K>>)
    /\ a.Commitment =
         Hash(<< Hash(<<uint64ToBytes32(a.Change), a.K2, a.R2, a.OutputX, a.OutputY>>) >>)
    /\ EddsaVerify(a.Signature, a.Commitment, a.InputX, a.InputY)
    /\ a.Path[1] = Hash(<<uint64ToBytes32(a.Amount), a.K, a.R, a.InputX, a.InputY>>)
    /\ BalanceConstraints(a)
    /\ Len(a.Path) = Depth + 1
    /\ verify(a.Index, a.Path, a.Root)

(***************************************************************************)
(* The application on the ledger                                           *)
(***************************************************************************)
\* the root of the on-chain tree over the inserted leaves
ChainRoot(leaves) == RootFromLeaves(leaves, ZeroHashes[1], Depth)

\* mutant: the application keeps the newest root only
PushRootSingle(window, r) == <<r>>

\* the root window after the root r is written to its head
PushRoot(window, r) ==
    LET w == <<r>> \o window
    IN  IF Len(w) > WindowSize THEN SubSeq(w, 1, WindowSize) ELSE w

\* the root window as a set
RootWindow == { roots[i] : i \in 1..Len(roots) }

\* the application's deposit method accepts the group
AppDepositAccepts(amount) ==
    /\ amount >= DepositMinimumAmount
    /\ Len(chainLeaves) < Pow2(Depth)

\* the application inserts a leaf and returns (leafIndex, root)
AppInsert(commitment) ==
    /\ chainLeaves' = Append(chainLeaves, commitment)
    /\ roots' = PushRoot(roots, ChainRoot(Append(chainLeaves, commitment)))

\* the application's withdraw method accepts the group
AppWithdrawAccepts(nullifier, root, fee, noChange) ==
    /\ nullifier \notin nullifiers
    /\ root \in RootWindow
    /\ fee >= NullifierMbr
    /\ (noChange \/ Len(chainLeaves) < Pow2(Depth))

\* avm.MBR(appID): the minimum balance of the application account
MBR == InitialMbr + NullifierMbr * Cardinality(nullifiers)

\* Frontend.GetRoot / Frontend.readRootOnchain: the global state key "root"
GetRoot == roots[1]

(***************************************************************************)
(* Accounts, transactions and groups                                       *)
(***************************************************************************)
\* the 32 bytes of an address read as a big-endian integer; "big" is an
\* address above the modulus of the scalar field (generateBiggerThanModAddress)
AddressValue(a) ==
    CASE a = "zero" -> 0
      [] a = "TSS"  -> 1
      [] a = "DV"   -> 2
      [] a = "WV"   -> 3
      [] a = "app"  -> 4
      [] a = "A"    -> 5
      [] a = "B"    -> 6
      [] a = "big"  -> FieldModulus + 5

\* a 32-byte value assigned to a frontend.Variable: reduced into the field
FieldElement(v) == v % FieldModulus

\* a transaction of a group; every transaction is built from the suggested
\* parameters sp, whose FlatFee is true
Txn(type, method, sender, signer, fee, arg) ==
    [type |-> type, method |-> method, sender |-> sender, signer |-> signer,
     fee |-> fee, flatFee |-> TRUE, arg |-> arg]

\* the dummy calls that bring the group to VerifierTopLevelTxnNeeded top
\* level transactions: noop(i) for i = 0 .. txnNeeded-1, with sp.Fee = 0
PaddingCalls(sender, signer) ==
    [i \in 1..(VerifierTopLevelTxnNeeded - 2) |->
        Txn("appl", "noop", sender, signer, 0, i - 1)]

\* the group SendDeposit composes: the deposit call signed by the deposit
\* verifier, the payment of the depositor, the padding signed by the treasury
DepositGroup(from, amount) ==
    << Txn("appl", "deposit", "DV", "DV", 0, from),
       Txn("pay", "", from, from, MinTxnFee * DepositMinFeeMultiplier, amount) >>
    \o PaddingCalls("TSS", "TSS")

\* mutant: the fee-paying call carries the whole fee of the withdrawal
WithdrawalGroupWholeFee(fee, recipient, feeRecipient, feeSigner) ==
    << Txn("appl", "withdraw", "WV", "WV", 0, recipient),
       Txn("appl", "noop", feeRecipient, feeSigner, fee, 0) >>
    \o PaddingCalls(feeRecipient, feeSigner)

\* mutant: sp.Fee is not set back to 0 before the padding is added
WithdrawalGroupPaidPadding(fee, recipient, feeRecipient, feeSigner) ==
    << Txn("appl", "withdraw", "WV", "WV", 0, recipient),
       Txn("appl", "noop", feeRecipient, feeSigner, Uint64Sub(fee, NullifierMbr), 0) >>
    \o [i \in 1..(VerifierTopLevelTxnNeeded - 2) |->
          Txn("appl", "noop", feeRecipient, feeSigner, Uint64Sub(fee, NullifierMbr), i - 1)]

\* the group SendWithdrawal composes: the withdraw call signed by the
\* withdrawal verifier, the fee-paying call and the padding of the fee signer
WithdrawalGroup(fee, recipient, feeRecipient, feeSigner) ==
    << Txn("appl", "withdraw", "WV", "WV", 0, recipient),
       Txn("appl", "noop", feeRecipient, feeSigner, Uint64Sub(fee, NullifierMbr), 0) >>
    \o PaddingCalls(feeRecipient, feeSigner)

\* if feeRecipient.IsZero() || feeSigner == nil: the treasury pays and signs
DefaultFeeSigner(feeRecipient, feeSigner) == feeRecipient = "zero" \/ feeSigner = "nil"

FeeRecipientOf(feeRecipient, feeSigner) ==
    IF DefaultFeeSigner(feeRecipient, feeSigner) THEN "TSS" ELSE feeRecipient

FeeSignerOf(feeRecipient, feeSigner) ==
    IF DefaultFeeSigner(feeRecipient, feeSigner) THEN "TSS" ELSE feeSigner

\* the sum of f[i] over i in 1..n
RECURSIVE SumTo(_, _)
SumTo(f, n) == IF n = 0 THEN 0 ELSE f[n] + SumTo(f, n - 1)

\* the network fees the account pays as sender of transactions of the group
FeesPaid(group, account) ==
    SumTo([i \in 1..Len(group) |->
              IF group[i].sender = account THEN group[i].fee ELSE 0], Len(group))

\* the payments of a confirmed withdraw call: Withdrawal to the recipient
\* and Fee - nullifier_mbr to the fee recipient
AppWithdrawPayments(recipient, feeRecipient, amount, fee) ==
    << [to |-> recipient, amount |-> amount],
       [to |-> feeRecipient, amount |-> fee - NullifierMbr] >>

\* what the account receives from the payments
Received(payments, account) ==
    SumTo([i \in 1..Len(payments) |->
              IF payments[i].to = account THEN payments[i].amount ELSE 0],
          Len(payments))

\* the change of the ledger balance of the account over a confirmed group
\* with the payments of the application
BalanceChange(group, payments, account) ==
    Received(payments, account) - FeesPaid(group, account)


(***************************************************************************)
(* The coordinator (Frontend)                                              *)
(***************************************************************************)
\* private keys in use
Keys == {1, 2}
\* inputPrivkey of SendDeposit and the private key behind its outputPubkey
DepositorKeys == {1}
DepositOutputs == {1}
\* the private key behind outputPubkey of SendWithdrawal
WithdrawalOutputs == {2}
\* amounts of SendDeposit
DepositAmounts == {DepositMinimumAmount}
\* opts.fee of SendWithdrawal (0 asks for the default fee)
Fees == {0}

\* mutant: the default fee leaves out the cost of the nullifier box
WithdrawalFeeNoMbr(fee) ==
    IF fee = 0 THEN WithdrawalMinFeeMultiplier * MinTxnFee ELSE fee

\* if fee == 0 { fee = WithdrawalMinFeeMultiplier*MinTxnFee + NullifierMbr }
WithdrawalFee(fee) ==
    IF fee = 0 THEN WithdrawalMinFeeMultiplier * MinTxnFee + NullifierMbr ELSE fee

\* opts.amount of SendWithdrawal: a unit, and all of a fresh deposit
WithdrawalAmounts == {1, DepositMinimumAmount - WithdrawalFee(0)}

\* the notes the coordinator holds: Deposits[i].Note and Withdrawals[i].Note
StoredNotes ==
    { Deposits[i] : i \in 1..Len(Deposits) } \cup
    { Withdrawals[i] : i \in 1..Len(Withdrawals) }

\* a Go panic ended the coordinator's process
Crashed == res.op # "none" /\ res.err = "panic"

\* an insertion by another coordinator: the commitment of a note of its own
ForeignCommitment == Hash(<< Hash(<< <<9>>, <<9>>, <<9>>, <<9>>, <<9>> >>) >>)

\* the leaves on chain that other coordinators inserted
ForeignLeaves == { i \in 1..Len(chainLeaves) : chainLeaves[i] = ForeignCommitment }

\* another coordinator can insert a leaf after n leaves are on chain
ForeignRoom(n) ==
    /\ n < MaxLeaves
    /\ n < Pow2(Depth)
    /\ Cardinality(ForeignLeaves) < MaxForeign

OtherInsert ==
    /\ ~Crashed
    /\ ForeignRoom(Len(chainLeaves))
    /\ AppInsert(ForeignCommitment)
    /\ UNCHANGED <<treeVars, proofRes, frontendVars, nullifiers>>
    /\ UNCHANGED auxVars

\* simRes.SimulateResponse.TxnGroups[0] of atc.Simulate: the opcode budget
\* the group consumed and the budget it added (700 for each application call)
SimWithin ==
    [AppBudgetConsumed |-> 700 * (VerifierTopLevelTxnNeeded - 1),
     AppBudgetAdded |-> 700 * (VerifierTopLevelTxnNeeded - 1)]
SimOver ==
    [AppBudgetConsumed |-> 700 * (VerifierTopLevelTxnNeeded - 1) + 1,
     AppBudgetAdded |-> 700 * (VerifierTopLevelTxnNeeded - 1)]

\* the simulation reports more opcode budget consumed than added
OverBudget(sim) == sim.AppBudgetConsumed > sim.AppBudgetAdded

\* the ledger evaluates a submitted group as the simulation did: a group
\* that runs out of opcode budget fails
LedgerRuns(sim) == ~OverBudget(sim)

\* the inputs of the coordinator's calls: the arguments of SendDeposit, the
\* WithdrawalOpts and keys of SendWithdrawal, and what the simulation reports
Inputs ==
    [leaves |-> MaxLeaves,
     depositAmounts |-> DepositAmounts,
     depositFrom |-> {"A"},
     amounts |-> WithdrawalAmounts,
     fees |-> Fees,
     noChange |-> BOOLEAN,
     keys |-> Keys,
     outputs |-> WithdrawalOutputs,
     recipients |-> {"A"},
     feePayers |-> { [feeRecipient |-> "zero", feeSigner |-> "nil"] },
     sims |-> {SimWithin}]

\* the outcome of a SendDeposit call
DepositCall(err, index, root, group, sim, submitted) ==
    [op |-> "deposit", err |-> err, index |-> index, root |-> root,
     group |-> group, sim |-> sim, submitted |-> submitted]

\* SendDeposit once the note is made: the proof of the deposit circuit, the
\* group, its simulation and submission, the root check and the mirror.  root
\* is the root the application returns for the insertion.
DepositNote(amount, out, note, root, group, sim) ==
    LET assignment == [Amount |-> amount, Commitment |-> note.commitment,
                       K |-> note.k, R |-> note.r,
                       OutputX |-> PointX(PublicKey(out)),
                       OutputY |-> PointY(PublicKey(out))]
        index == Len(chainLeaves)
    IN  IF ~DepositCircuit(assignment)
        THEN /\ res' = DepositCall("failed to verify deposit proof", -1, <<>>,
                                   <<>>, SimWithin, FALSE)
             /\ UNCHANGED <<leafHashes, Deposits, chainLeaves, roots>>
        ELSE IF ~(AppDepositAccepts(amount) /\ LedgerRuns(sim))
        THEN /\ res' = DepositCall("failed to execute transaction", -1, <<>>,
                                   group, sim, TRUE)
             /\ UNCHANGED <<leafHashes, Deposits, chainLeaves, roots>>
        ELSE \E raced \in {FALSE} \cup
                            (IF ForeignRoom(index + 1) THEN {TRUE} ELSE {}) :
             IF raced
             THEN \* a leaf of another coordinator lands between the
                  \* confirmation and readRootOnchain
                  /\ chainLeaves' = chainLeaves \o <<note.commitment, ForeignCommitment>>
                  /\ roots' = PushRoot(PushRoot(roots, root), ChainRoot(chainLeaves'))
                  /\ res' = DepositCall("root mismatch", index, root, group, sim, TRUE)
                  /\ UNCHANGED <<leafHashes, Deposits>>
             ELSE /\ chainLeaves' = Append(chainLeaves, note.commitment)
                  /\ roots' = PushRoot(roots, root)
                  /\ leafHashes' = Append(leafHashes, note.commitment)
                  /\ Deposits' = Append(Deposits, [note EXCEPT !.insertedIndex = index])
                  /\ res' = DepositCall("nil", index, root, group, sim, TRUE)

\* SendDeposit from the note on
DepositMade(amount, out, note, from, sim) ==
    DepositNote(amount, out, note, ChainRoot(Append(chainLeaves, note.commitment)),
                DepositGroup(from, amount), sim)

\* Frontend.SendDeposit(from, amount, outputPubkey, inputPrivkey) with its
\* arguments drawn from I
SendDepositWith(I) ==
    /\ ~Crashed
    /\ ~pending.set
    /\ Len(leafHashes) < I.leaves
    /\ Len(chainLeaves) < I.leaves
    /\ \E amount \in I.depositAmounts, out \in DepositOutputs, priv \in DepositorKeys,
          from \in I.depositFrom, sim \in I.sims :
         DepositMade(amount, out, NewNote(amount, priv, PublicKey(out)), from, sim)
    /\ UNCHANGED <<subTree, zeroHashes, proofRes, Withdrawals, pending, nullifiers>>
    /\ UNCHANGED auxVars

SendDeposit == SendDepositWith(Inputs)

\* the outcome of a SendWithdrawal call, or its state when the group is composed
WithdrawalCall(stage, err, fromNote, nullifier, priv, opts, fee, change, inserts) ==
    [op |-> "withdraw", stage |-> stage, err |-> err,
     fromAmount |-> fromNote.Amount, fromIndex |-> fromNote.insertedIndex,
     fromX |-> fromNote.outputX, fromY |-> fromNote.outputY,
     nullifier |-> nullifier,
     priv |-> priv, amount |-> opts.amount, optFee |-> opts.fee, fee |-> fee,
     noChange |-> opts.noChange,
     recipient |-> opts.recipient, feeRecipient |-> opts.feeRecipient,
     feeSigner |-> opts.feeSigner,
     change |-> change.Amount, changeIndex |-> change.insertedIndex,
     inserts |-> inserts,
     recipientChange |-> 0, feeRecipientChange |-> 0]

\* SendWithdrawal once the change note is made, the Merkle proof computed and
\* the root and the nullifier known: the checks, the proof of the withdrawal
\* circuit, the composed group and its simulation
ComposeWithdrawal(fromNote, priv, out, opts, fee, changeNote, merkleProof, root, nullifier) ==
    LET assignment == [Recipient |-> FieldElement(AddressValue(opts.recipient)),
                       Withdrawal |-> opts.amount, Fee |-> fee,
                       Commitment |-> changeNote.commitment, Nullifier |-> nullifier,
                       Root |-> root, K |-> fromNote.k, R |-> fromNote.r,
                       Amount |-> fromNote.Amount, Change |-> changeNote.Amount,
                       K2 |-> changeNote.k, R2 |-> changeNote.r,
                       Index |-> fromNote.insertedIndex, Path |-> merkleProof.proof,
                       InputX |-> PointX(PublicKey(priv)),
                       InputY |-> PointY(PublicKey(priv)),
                       Signature |-> Sign(priv, changeNote.commitment),
                       OutputX |-> PointX(PublicKey(out)),
                       OutputY |-> PointY(PublicKey(out))]
        Failed(err) ==
            /\ res' = WithdrawalCall("done", err, fromNote, nullifier, priv, opts, fee,
                                     changeNote, 0)
            /\ pending' = pending
    IN  IF fromNote.insertedIndex = -1
        THEN Failed("note not inserted in the tree")
        ELSE IF merkleProof.err = "panic: index out of range"
        THEN Failed("panic")
        ELSE IF merkleProof.err # "nil"
        THEN Failed("failed to create merkle proof")
        ELSE IF ~WithdrawalCircuit(assignment)
        THEN Failed("failed to verify withdrawal proof")
        ELSE /\ pending' = [set |-> TRUE, nullifier |-> nullifier, root |-> root,
                            fee |-> fee, noChange |-> opts.noChange,
                            changeNote |-> changeNote,
                            built |-> Len(chainLeaves),
                            amount |-> opts.amount,
                            recipient |-> opts.recipient,
                            feeRecipient |->
                                FeeRecipientOf(opts.feeRecipient, opts.feeSigner),
                            group |->
                                WithdrawalGroup(fee, opts.recipient,
                                    FeeRecipientOf(opts.feeRecipient, opts.feeSigner),
                                    FeeSignerOf(opts.feeRecipient, opts.feeSigner)),
                            sim |-> opts.sim]
             /\ res' = WithdrawalCall("composed", "nil", fromNote, nullifier, priv,
                                      opts, fee, changeNote, 0)

\* the WithdrawalOpts of a SendWithdrawal call, and what its simulation reports
WithdrawalOpts(amount, fee, noChange, recipient, feePayer, sim) ==
    [amount |-> amount, fee |-> fee, noChange |-> noChange, recipient |-> recipient,
     feeRecipient |-> feePayer.feeRecipient, feeSigner |-> feePayer.feeSigner,
     sim |-> sim]

\* SendWithdrawal from fromNote, whose Merkle proof and nullifier are given:
\* the options, the keys and the change note
WithdrawFrom(I, fromNote, merkleProof, nullifier) ==
    \E amount \in I.amounts, optFee \in I.fees, noChange \in I.noChange,
       priv \in I.keys, out \in I.outputs, recipient \in I.recipients,
       feePayer \in I.feePayers, sim \in I.sims :
        ComposeWithdrawal(fromNote, priv, out,
            WithdrawalOpts(amount, optFee, noChange, recipient, feePayer, sim),
            WithdrawalFee(optFee),
            NewNote(Uint64Sub(Uint64Sub(fromNote.Amount, amount), WithdrawalFee(optFee)),
                    priv, PublicKey(out)),
            merkleProof, GetRoot, nullifier)

\* Frontend.SendWithdrawal(opts, inputPrivkey, outputPubkey) up to the composed
\* and simulated group, with its arguments drawn from I
SendWithdrawalWith(I) ==
    /\ ~Crashed
    /\ ~pending.set
    /\ Len(leafHashes) < I.leaves
    /\ \E fromNote \in StoredNotes :
          WithdrawFrom(I, fromNote,
                       createMerkleProof(TheTree, MakeLeafValue(fromNote),
                                         fromNote.insertedIndex),
                       MakeNullifier(fromNote))
    /\ UNCHANGED <<treeVars, proofRes, Deposits, Withdrawals, chainVars>>
    /\ UNCHANGED auxVars

SendWithdrawal == SendWithdrawalWith(Inputs)

\* whether a leaf of another coordinator lands between the confirmation of the
\* withdrawal group and the return of SendWithdrawal
WithdrawalRaces ==
    {FALSE} \cup
    (IF ForeignRoom(Len(chainLeaves) + (IF pending.noChange THEN 0 ELSE 1))
     THEN {TRUE} ELSE {})

\* the chain when SendWithdrawal returns from a confirmed group: the change
\* leaf the application inserted (none with noChange) and the leaf that landed
\* after it
ChainAfterWithdrawal(commitment, raced) ==
    LET inserted == IF pending.noChange THEN chainLeaves
                    ELSE Append(chainLeaves, commitment)
        window == IF pending.noChange THEN roots
                  ELSE PushRoot(roots, ChainRoot(inserted))
    IN  IF raced
        THEN /\ chainLeaves' = Append(inserted, ForeignCommitment)
             /\ roots' = PushRoot(window, ChainRoot(Append(inserted, ForeignCommitment)))
        ELSE /\ chainLeaves' = inserted
             /\ roots' = window

\* the ledger confirms the submitted withdrawal group
WithdrawalConfirmed ==
    /\ AppWithdrawAccepts(pending.nullifier, pending.root, pending.fee, pending.noChange)
    /\ LedgerRuns(pending.sim)

\* the outcome of a confirmed withdrawal: where the change note went and what
\* the ledger moved to the recipient and to the fee recipient
ConfirmedCall(call, p, changeIndex, inserts) ==
    [call EXCEPT !.stage = "done", !.changeIndex = changeIndex, !.inserts = inserts,
        !.recipientChange =
            BalanceChange(p.group,
                AppWithdrawPayments(p.recipient, p.feeRecipient, p.amount, p.fee),
                p.recipient),
        !.feeRecipientChange =
            BalanceChange(p.group,
                AppWithdrawPayments(p.recipient, p.feeRecipient, p.amount, p.fee),
                p.feeRecipient)]

\* mutant: the error of atc.Execute is ignored and the change note is mirrored
\* whether or not the group was confirmed
ExecuteWithdrawalIgnoringError ==
    /\ ~Crashed
    /\ pending.set
    /\ LET changeIndex == Len(chainLeaves)
           changeNote == [pending.changeNote EXCEPT !.insertedIndex = changeIndex]
           inserts == Len(chainLeaves) - pending.built
       IN  /\ IF WithdrawalConfirmed
              THEN /\ nullifiers' = nullifiers \cup {pending.nullifier}
                   /\ \E raced \in WithdrawalRaces :
                         ChainAfterWithdrawal(changeNote.commitment, raced)
                   /\ res' = ConfirmedCall(res, pending, changeIndex, inserts)
              ELSE /\ res' = [res EXCEPT !.stage = "done",
                                         !.err = "failed to execute transaction",
                                         !.inserts = inserts]
                   /\ UNCHANGED chainVars
           /\ leafHashes' = Append(leafHashes, changeNote.commitment)
           /\ Withdrawals' = Append(Withdrawals, changeNote)
    /\ pending' = NoPending
    /\ UNCHANGED <<subTree, zeroHashes, proofRes, Deposits>>
    /\ UNCHANGED auxVars

\* Frontend.SendWithdrawal from atc.Execute on: the group is submitted and,
\* when it is confirmed, the change note is mirrored
ExecuteWithdrawal ==
    /\ ~Crashed
    /\ pending.set
    /\ LET changeIndex == Len(chainLeaves)
           changeNote == [pending.changeNote EXCEPT !.insertedIndex = changeIndex]
           inserts == Len(chainLeaves) - pending.built
       IN  IF WithdrawalConfirmed
           THEN /\ nullifiers' = nullifiers \cup {pending.nullifier}
                /\ \E raced \in WithdrawalRaces :
                      ChainAfterWithdrawal(changeNote.commitment, raced)
                /\ leafHashes' = Append(leafHashes, changeNote.commitment)
                /\ Withdrawals' = Append(Withdrawals, changeNote)
                /\ res' = ConfirmedCall(res, pending, changeIndex, inserts)
           ELSE /\ res' = [res EXCEPT !.stage = "done",
                                      !.err = "failed to execute transaction",
                                      !.inserts = inserts]
                /\ UNCHANGED <<leafHashes, Withdrawals, chainVars>>
    /\ pending' = NoPending
    /\ UNCHANGED <<subTree, zeroHashes, proofRes, Deposits>>
    /\ UNCHANGED auxVars

Init == TreeInit

Next == SendDeposit \/ SendWithdrawal \/ ExecuteWithdrawal \/ OtherInsert

Spec == Init /\ [][Next]_vars

(***************************************************************************)
(* The scenario of TestDepositWithdrawMBR and                              *)
(* TestWithdrawToAddressBiggerThanMod: a deposit, withdrawals to funded    *)
(* and fresh accounts with the default fee, paid by the account or by the  *)
(* treasury                                                                *)
(***************************************************************************)
\* depositAmount and firstWithdrawalAmount
ScenarioDeposit == 10000000
FirstWithdrawal == 5000000

\* availableToWithdraw := depositAmount - firstWithdrawalAmount - uint64(2*fee)
AvailableToWithdraw ==
    Uint64Sub(Uint64Sub(ScenarioDeposit, FirstWithdrawal), 2 * WithdrawalFee(0))

\* an opts.fee above the default fee
OtherFee == 2 * WithdrawalFee(0)

ScenarioInputs ==
    [leaves |-> MaxScenarioLeaves,
     depositAmounts |-> {ScenarioDeposit},
     depositFrom |-> {"A"},
     amounts |-> {FirstWithdrawal, AvailableToWithdraw, 1},
     fees |-> {0, OtherFee},
     noChange |-> {FALSE},
     keys |-> {1},
     outputs |-> {1},
     recipients |-> {"A", "big"},
     feePayers |-> { [feeRecipient |-> "zero", feeSigner |-> "nil"],
                     [feeRecipient |-> "A", feeSigner |-> "A"] },
     sims |-> {SimWithin, SimOver}]

ScenarioNext ==
    \/ SendDepositWith(ScenarioInputs)
    \/ SendWithdrawalWith(ScenarioInputs)
    \/ ExecuteWithdrawal

SpecScenario == Init /\ [][ScenarioNext]_vars

(***************************************************************************)
(* Claims about the notes and the coordinator                              *)
(***************************************************************************)
\* the step is one of SendWithdrawal: the call up to the composed group, or
\* its submission
WithdrawalStep == res' # res /\ res'.op = "withdraw"

\* the step is a SendWithdrawal call that returns, or its submission returning
WithdrawalReturns == WithdrawalStep /\ res'.stage = "done"

\* the coordinator's mirror holds exactly the leaves of the application
InSync == leafHashes = chainLeaves

\* C3: any two notes the coordinator created with NewNote and inserted at
\* different leaf indices have different nullifiers, also two notes of the
\* same amount between the same sender key and recipient key.
C3_NullifierUniquePerNote ==
    \A m, n \in StoredNotes :
        m.insertedIndex # n.insertedIndex => MakeNullifier(m) # MakeNullifier(n)

\* C4: once a withdrawal from a note is confirmed (its nullifier is on chain),
\* every later SendWithdrawal with that nullifier fails and leaves leafHashes,
\* Deposits and Withdrawals unchanged; one that is submitted is rejected by the
\* application and changes nothing on chain.
C4_DoubleSpendRejected ==
    [][(WithdrawalReturns /\ res'.nullifier \in nullifiers)
       => /\ res'.err # "nil"
          /\ UNCHANGED localVars
          /\ pending.set => /\ res'.err = "failed to execute transaction"
                            /\ UNCHANGED chainVars]_vars

\* a second withdrawal from a spent note was submitted with the mirror in sync,
\* a root of the window and room in the tree, and was rejected
C4_Witness ==
    /\ res.op = "withdraw"
    /\ res.stage = "done"
    /\ res.err = "failed to execute transaction"
    /\ res.nullifier \in nullifiers
    /\ res.inserts = 0
    /\ InSync
    /\ Len(chainLeaves) < Pow2(Depth)
    /\ Len(Withdrawals) >= 1

C6_DepositIndexIsLocalPosition ==
    (res.op = "deposit" /\ res.err = "nil")
    => LET note == Deposits[Len(Deposits)]
       IN  /\ note.insertedIndex = res.index
           /\ note.insertedIndex = Len(leafHashes) - 1
           /\ leafHashes[note.insertedIndex + 1] = note.commitment
           /\ createMerkleProof(TheTree, MakeLeafValue(note), note.insertedIndex).err = "nil"

\* C7: after a successful SendDeposit the root the deposit method returned is
\* the root of the local tree, Tree.getRoot().
C7_DepositRootIsLocalRoot ==
    (res.op = "deposit" /\ res.err = "nil") => res.root = getRoot(TheTree)

\* C8: the minimum balance of the application account is InitialMbr
\* (1_159_400 for 32 levels and 50 roots) plus NullifierMbr for each successful
\* withdrawal of the coordinator, whatever deposits and failed withdrawals
\* happened.
C8_MbrFormula ==
    /\ InitialMbr = 1159400
    /\ (Deposits = <<>> /\ Withdrawals = <<>>) => MBR = InitialMbr
    /\ MBR = InitialMbr + Len(Withdrawals) * NullifierMbr

\* one deposit and 2 * WindowSize withdrawals, each from the change note of the
\* one before, were confirmed
C8_Witness ==
    /\ Len(Deposits) = 1
    /\ Len(Withdrawals) = 2 * WindowSize
    /\ InSync
    /\ \A i \in 1..Len(Withdrawals) : Withdrawals[i].insertedIndex = i
    /\ MBR = InitialMbr + 2 * WindowSize * NullifierMbr

\* the public key of the spender's private key is not the one in the note
WrongKey(call) ==
    \/ PointX(PublicKey(call.priv)) # call.fromX
    \/ PointY(PublicKey(call.priv)) # call.fromY

\* C9: a SendWithdrawal with a private key whose public key is not the output
\* public key of the note being spent fails, is never submitted, and leaves
\* the local state and the chain unchanged.
C9_WrongKeyFails ==
    [][(WithdrawalStep /\ WrongKey(res'))
       => /\ res'.stage = "done"
          /\ res'.err # "nil"
          /\ ~pending.set
          /\ UNCHANGED <<localVars, chainVars>>]_vars

\* a withdrawal from a mirrored, unspent note failed in the circuit for the
\* key alone: amount and fee are covered and the mirror is in sync
C9_Witness ==
    /\ res.op = "withdraw"
    /\ WrongKey(res)
    /\ res.err = "failed to verify withdrawal proof"
    /\ res.amount + res.fee <= res.fromAmount
    /\ res.nullifier \notin nullifiers
    /\ InSync

\* C10: every SendWithdrawal with amount + fee above the amount of the note
\* fails, with noChange too, although the change computed by the coordinator
\* wraps around; nothing changes locally or on chain.
C10_OverdrawFails ==
    [][(WithdrawalStep /\ res'.amount + res'.fee > res'.fromAmount)
       => /\ res'.stage = "done"
          /\ res'.err # "nil"
          /\ ~pending.set
          /\ UNCHANGED <<localVars, chainVars>>]_vars

\* a withdrawal of 1 from a zero-amount change note with noChange failed in
\* the circuit, the key being the right one and the mirror in sync
C10_Witness ==
    /\ res.op = "withdraw"
    /\ res.fromAmount = 0
    /\ res.amount = 1
    /\ res.noChange
    /\ res.change = Pow2(UintBits) - 1 - res.fee
    /\ ~WrongKey(res)
    /\ res.err = "failed to verify withdrawal proof"
    /\ InSync

(***************************************************************************)
(* ECIES transport of the secrets of a note (package encrypt)              *)
(***************************************************************************)
\* the scalars of eddsa private keys: not a multiple of the order of the group
Scalars == { k \in 1..(GroupOrder + 1) : k % GroupOrder # 0 }

\* PublicKey.Bytes(): the compressed point, Y with the sign of X
PointBytes(point) == PointY(point) \o << point % 2 >>

\* PublicKey.SetBytes(buf): the point of the compressed encoding, or an error
SetBytes(buf) ==
    LET points == { q \in 0..(GroupOrder - 1) : PointBytes(q) = buf }
    IN  IF points = {}
        THEN [err |-> "failed to parse ephemeral public key", point |-> 0]
        ELSE [err |-> "nil", point |-> CHOOSE q \in points : TRUE]

\* scrypt.Key(sharedSecret, "ecies", 32768, 8, 1, 32) of X || Y of the point
SharedKey(sharedPoint) == Hash(<< PointX(sharedPoint), PointY(sharedPoint), <<101>> >>)

\* encryptRaw: nonce || secretbox.Seal(plaintext, nonce, key)
encryptRaw(plaintext, key, nonce) ==
    << <<nonce>>, [key |-> key, nonce |-> <<nonce>>, plaintext |-> plaintext] >>

\* mutant: the result of secretbox.Open is not looked at
decryptRawUnchecked(data, key) ==
    IF Len(data) < 1
    THEN [err |-> "encrypted data too short", plaintext |-> <<>>]
    ELSE [err |-> "nil",
          plaintext |-> IF Len(data) >= 2 THEN data[2].plaintext ELSE <<>>]

\* decryptRaw: secretbox.Open authenticates the box with the key and the nonce
decryptRaw(data, key) ==
    IF Len(data) < 1
    THEN [err |-> "encrypted data too short", plaintext |-> <<>>]
    ELSE IF Len(data) >= 2 /\ data[2].key = key /\ data[2].nonce = data[1]
    THEN [err |-> "nil", plaintext |-> data[2].plaintext]
    ELSE [err |-> "decryption failed", plaintext |-> <<>>]

\* ECIESEncrypt(data, pubkey, ephemeralPub, ephemeralPriv) with the nonce that
\* encryptRaw reads from rand.Reader
ECIESEncrypt(data, pubkey, ephemeralPub, ephemeralPriv, nonce) ==
    LET sharedPoint == ScalarMultiplication(pubkey, ephemeralPriv)
    IN  << PointBytes(ephemeralPub) >> \o encryptRaw(data, SharedKey(sharedPoint), nonce)

\* ECIESDecrypt(encryptedData, privkey)
ECIESDecrypt(encryptedData, privkey) ==
    IF Len(encryptedData) < 1
    THEN [err |-> "encrypted data too short", plaintext |-> <<>>]
    ELSE LET ephemeralPub == SetBytes(encryptedData[1])
             sharedPoint == ScalarMultiplication(ephemeralPub.point, privkey)
         IN  IF ephemeralPub.err # "nil"
             THEN [err |-> ephemeralPub.err, plaintext |-> <<>>]
             ELSE decryptRaw(Tail(encryptedData), SharedKey(sharedPoint))

\* the secrets sent: k or r of a note
Messages == { <<31>>, <<32>> }
\* the nonces encryptRaw draws
Nonces == {1, 2}

\* a message, the key of the recipient, an ephemeral key pair, and the key of
\* the reader of the ciphertext
EciesInit ==
    /\ CoreInit
    /\ \E m \in Messages, skr \in Scalars, ske \in Scalars, sk \in Scalars :
          ecies = [stage |-> "keys", m |-> m, skr |-> skr, ske |-> ske, sk |-> sk]
    /\ setup = [pc |-> "none"]
    /\ circuit = [stage |-> "none"]

\* encrypt.ECIESEncrypt(m, pk_r, pk_e, sk_e)
EciesEncrypt ==
    /\ ecies.stage = "keys"
    /\ \E nonce \in Nonces :
          ecies' = [stage |-> "sent", m |-> ecies.m, skr |-> ecies.skr,
                    ske |-> ecies.ske, sk |-> ecies.sk,
                    encrypted |-> ECIESEncrypt(ecies.m, PublicKey(ecies.skr),
                                               PublicKey(ecies.ske), ecies.ske, nonce)]
    /\ UNCHANGED <<treeVars, proofRes, frontendVars, chainVars, setup, circuit>>

\* encrypt.ECIESDecrypt(encrypted, sk)
EciesDecrypt ==
    /\ ecies.stage = "sent"
    /\ ecies' = [stage |-> "read", m |-> ecies.m, skr |-> ecies.skr,
                 ske |-> ecies.ske, sk |-> ecies.sk,
                 encrypted |-> ecies.encrypted,
                 decrypted |-> ECIESDecrypt(ecies.encrypted, ecies.sk)]
    /\ UNCHANGED <<treeVars, proofRes, frontendVars, chainVars, setup, circuit>>

EciesNext == EciesEncrypt \/ EciesDecrypt

SpecEcies == EciesInit /\ [][EciesNext]_vars

\* C13: ECIESDecrypt of ECIESEncrypt(m, pk_r, pk_e, sk_e) returns m under the
\* recipient's key sk_r and an error under every key whose public key is not
\* pk_r; both sides derive the same key, because sk_e * pk_r = sk_r * pk_e.
C13_EciesRoundTrip ==
    /\ ecies.stage # "none"
       => ScalarMultiplication(PublicKey(ecies.skr), ecies.ske)
          = ScalarMultiplication(PublicKey(ecies.ske), ecies.skr)
    /\ ecies.stage = "read"
       => /\ ecies.sk = ecies.skr
             => ecies.decrypted = [err |-> "nil", plaintext |-> ecies.m]
          /\ PublicKey(ecies.sk) # PublicKey(ecies.skr)
             => /\ ecies.decrypted.err # "nil"
                /\ ecies.decrypted.plaintext = <<>>

\* a ciphertext was read with a key other than the recipient's and refused
C13_Witness ==
    /\ ecies.stage = "read"
    /\ PublicKey(ecies.sk) # PublicKey(ecies.skr)
    /\ ecies.sk # ecies.ske
    /\ ecies.decrypted.err = "decryption failed"
    /\ ECIESDecrypt(ecies.encrypted, ecies.skr).plaintext = ecies.m

(***************************************************************************)
(* Claims about fees, groups and balances                                  *)
(***************************************************************************)
\* the last call is a SendWithdrawal whose group was confirmed
WithdrawalSucceeded == res.op = "withdraw" /\ res.stage = "done" /\ res.err = "nil"

\* the change of a successful withdrawal with opts.fee = 0 is the amount of
\* the note less the withdrawal and the default fee, and the scenario's two
\* withdrawals leave defaultFee.change and then 0
ChangeWithDefaultFee(defaultFee) ==
    (WithdrawalSucceeded /\ res.optFee = 0)
    => /\ WithdrawalMinFeeMultiplier * MinTxnFee + NullifierMbr = defaultFee.fee
       /\ res.change = res.fromAmount - res.amount - defaultFee.fee
       /\ (res.fromAmount = 10000000 /\ res.amount = 5000000)
          => res.change = defaultFee.change
       /\ (res.fromAmount = defaultFee.change
           /\ res.amount = 10000000 - 5000000 - 2 * defaultFee.fee)
          => res.change = 0

\* C11 as stated: the default fee is 60 x 1_000 + 15_300 = 75_300, withdrawing
\* 5_000_000 from a 10_000_000 note leaves a change note of 4_924_700, and then
\* withdrawing 10_000_000 - 5_000_000 - 2 x 75_300 leaves a change note of 0.
C11_DefaultFee75300 ==
    ChangeWithDefaultFee([fee |-> 60 * 1000 + 15300, change |-> 4924700])

\* C11: for a successful withdrawal with opts.fee = 0 the change note amount is
\* fromNote.Amount - withdrawalAmount - (WithdrawalMinFeeMultiplier x minTxnFee
\* + NullifierMbr); the default fee is 180 x 1_000 + 15_300 = 195_300, so
\* withdrawing 5_000_000 from a 10_000_000 note leaves a change note of
\* 4_804_700, and then withdrawing 10_000_000 - 5_000_000 - 2 x 195_300 leaves
\* a change note of amount 0.
C11_DefaultFeeChange ==
    ChangeWithDefaultFee([fee |-> 180 * 1000 + 15300, change |-> 4804700])

\* the second withdrawal of the scenario was confirmed: everything left in
\* the change note of the first, leaving a change note of 0
C11_Witness ==
    /\ WithdrawalSucceeded
    /\ res.optFee = 0
    /\ res.fromAmount = 4804700
    /\ res.amount = 4609400
    /\ res.change = 0
    /\ Len(Withdrawals) = 2
    /\ Withdrawals[1].Amount = 4804700
    /\ Withdrawals[2].Amount = 0

\* the account that pays and receives the fee of the last withdrawal
FeeRecipientOfCall == FeeRecipientOf(res.feeRecipient, res.feeSigner)

\* C12 as stated: over every confirmed withdrawal group the balance of the
\* recipient increases by exactly withdrawalAmount and the balance of the
\* treasury (the fee recipient) by exactly fee - nullifierMbr.
C12_TreasuryGainsFee ==
    (WithdrawalSucceeded /\ FeeRecipientOfCall # res.recipient)
    => /\ res.recipientChange = res.amount
       /\ res.feeRecipientChange = res.fee - NullifierMbr

\* C12: over every confirmed withdrawal group the balance of the recipient
\* increases by exactly withdrawalAmount, also when its address read as an
\* integer exceeds the modulus of the scalar field and also when it is the fee
\* recipient; the fee recipient (the treasury) is paid fee - nullifierMbr by
\* the application and pays the same amount as the fee of the fee-paying call,
\* so that its balance does not change otherwise.
C12_BalanceChanges ==
    WithdrawalSucceeded
    => /\ res.recipientChange = res.amount
       /\ res.feeRecipientChange =
            IF FeeRecipientOfCall = res.recipient THEN res.amount ELSE 0

\* a withdrawal to the address above the modulus, with the treasury as fee
\* recipient and a fee above the cost of the nullifier box, was confirmed
C12_Witness ==
    /\ WithdrawalSucceeded
    /\ res.recipient = "big"
    /\ AddressValue(res.recipient) > FieldModulus
    /\ FeeRecipientOfCall = "TSS"
    /\ res.fee > NullifierMbr
    /\ res.recipientChange = res.amount
    /\ res.amount = 5000000
    /\ res.feeRecipientChange = 0

\* the groups in the state: the one the last SendDeposit composed and the
\* withdrawal group composed and not yet executed
DepositGroupComposed == res.op = "deposit" /\ res.group # <<>>
WithdrawalGroupComposed == pending.set

\* exactly one transaction of the group carries a fee, the flat fee fee
OneFlatFee(group, fee) ==
    /\ \A i \in 1..Len(group) : group[i].flatFee
    /\ Cardinality({ i \in 1..Len(group) : group[i].fee # 0 }) = 1
    /\ \E i \in 1..Len(group) : group[i].fee = fee

\* C14 as stated: in every composed group exactly one transaction carries a
\* non-zero fee, all are flat-fee, and the fee is minTxnFee x depositMultiplier
\* for a deposit group and minTxnFee x withdrawalMultiplier + nullifierMbr for
\* a withdrawal group.
C14_WithdrawalFeeWithMbr ==
    /\ DepositGroupComposed
       => OneFlatFee(res.group, MinTxnFee * DepositMinFeeMultiplier)
    /\ (WithdrawalGroupComposed /\ res.optFee = 0)
       => OneFlatFee(pending.group, MinTxnFee * WithdrawalMinFeeMultiplier + NullifierMbr)

\* C14: in every composed group the flat-fee flag is set on all transactions
\* and exactly one transaction, the second, carries a non-zero fee: minTxnFee
\* x depositMultiplier in a deposit group and fee - nullifierMbr in a
\* withdrawal group with a fee above nullifierMbr, which is minTxnFee x
\* withdrawalMultiplier for the default fee; every other transaction carries
\* fee 0.
C14_FeeDiscipline ==
    /\ DepositGroupComposed
       => /\ OneFlatFee(res.group, MinTxnFee * DepositMinFeeMultiplier)
          /\ res.group[2].fee # 0
    /\ (WithdrawalGroupComposed /\ pending.fee > NullifierMbr)
       => /\ OneFlatFee(pending.group, pending.fee - NullifierMbr)
          /\ pending.group[2].fee # 0
          /\ res.optFee = 0
             => pending.group[2].fee = MinTxnFee * WithdrawalMinFeeMultiplier

\* a withdrawal group with the default fee is composed after a deposit group
\* was confirmed
C14_Witness ==
    /\ WithdrawalGroupComposed
    /\ res.optFee = 0
    /\ pending.group[2].fee = 180000
    /\ Len(pending.group) = VerifierTopLevelTxnNeeded
    /\ Len(Deposits) >= 1

\* C15: a deposit or withdrawal group whose simulation reports more opcode
\* budget consumed than added is rejected and never submitted: SendDeposit
\* returns an error without calling Execute, and SendWithdrawal does not go on
\* to Execute with such a group.
C15_OverBudgetNotSubmitted ==
    /\ (DepositGroupComposed /\ OverBudget(res.sim))
       => /\ res.err # "nil"
          /\ ~res.submitted
    /\ WithdrawalGroupComposed => ~OverBudget(pending.sim)

\* the no-op calls of the group that the treasury logic signature signs
TreasurySigned(group) ==
    { i \in 1..Len(group) : group[i].signer = "TSS" /\ group[i].method = "noop" }

\* the group is the verifier-signed withdraw call, the fee-paying no-op and
\* VerifierTopLevelTxnNeeded - 2 padding calls, in this order
WithdrawalGroupOrdered(group) ==
    /\ Len(group) = VerifierTopLevelTxnNeeded
    /\ group[1].method = "withdraw" /\ group[1].signer = "WV"
    /\ group[2].method = "noop" /\ group[2].fee = Uint64Sub(pending.fee, NullifierMbr)
    /\ \A i \in 3..Len(group) : group[i].method = "noop" /\ group[i].fee = 0

\* C16: in every withdrawal group composed with the default (treasury) fee
\* signer the treasury logic signature signs exactly one no-op call, and the
\* group is the verifier-signed withdraw call first, the fee-paying no-op
\* second and N - 2 padding calls.
C16_TreasurySignsOneNoop ==
    (WithdrawalGroupComposed /\ DefaultFeeSigner(res.feeRecipient, res.feeSigner))
    => /\ WithdrawalGroupOrdered(pending.group)
       /\ Cardinality(TreasurySigned(pending.group)) = 1

\* the order of the group alone holds, for every fee signer
GroupOrderHolds == WithdrawalGroupComposed => WithdrawalGroupOrdered(pending.group)

(***************************************************************************)
(* The deploy pipeline (setup.CreateApp).  A file is its modification time *)
(* (0 when it does not exist) and the version of its content; a logical    *)
(* clock gives every write a later time than the writes before it.         *)
(***************************************************************************)
Networks == {"mainnet", "testnet", "devnet"}

\* the rounds a ledger may confirm a transaction in
Blocks == {5, 6}
\* the id a ledger gives to the next application created on it
NextAppId(apps) == FirstAppId + Cardinality(apps)

NoApp == [Id |-> 0, CreationBlock |-> 0]

DepositCircuitData ==
    [VerifierName |-> "DepositVerifier", DefinitionPath |-> "DepositCircuit",
     CompiledPath |-> "CompiledDepositCircuit.bin"]

WithdrawalCircuitData ==
    [VerifierName |-> "WithdrawalVerifier", DefinitionPath |-> "WithdrawalCircuit",
     CompiledPath |-> "CompiledWithdrawalCircuit.bin"]

MainContractSourcePath == "APP.py"
TssSourcePath == "TSS.py"
TssTealPath == "TSS.teal"
TssBytecodePath == "TSS.tok"
AppPath == "App.json"
TreeConfigPath == "TreeConfig.json"
AppSchemaPath == "APP.arc32.json"
ApprovalTealPath == "APP.approval.teal"
ClearTealPath == "APP.clear.teal"

VerifierPath(c) == c.VerifierName \o ".py"
VerifierTealPath(c) == c.VerifierName \o ".teal"
VerifierBytecodePath(c) == c.VerifierName \o ".tok"

\* the files a developer writes
SourceFiles ==
    {DepositCircuitData.DefinitionPath, WithdrawalCircuitData.DefinitionPath,
     MainContractSourcePath, TssSourcePath}

\* the files the pipeline generates
Artefacts ==
    {TreeConfigPath, AppPath, AppSchemaPath, ApprovalTealPath, ClearTealPath,
     TssTealPath, TssBytecodePath}
    \cup UNION { {c.CompiledPath, VerifierPath(c), VerifierTealPath(c),
                  VerifierBytecodePath(c)} :
                 c \in {DepositCircuitData, WithdrawalCircuitData} }

Files == SourceFiles \cup Artefacts

\* utils.ShouldRecompile(target, sources...): the target is missing or a
\* source was modified after it
ShouldRecompile(mtime, target, sources) ==
    \/ mtime[target] = 0
    \/ \E src \in sources : mtime[src] = 0 \/ mtime[src] > mtime[target]

\* os.WriteFile / os.Create of f by the pipeline; changed tells whether the
\* content written differs from the content on file
Wrote(s, f, changed) ==
    [s EXCEPT !.clock = s.clock + 1,
              !.mtime[f] = s.clock + 1,
              !.ver[f] = IF changed THEN s.ver[f] + 1 ELSE s.ver[f],
              !.did = s.did \cup {<<"write", f>>}]

\* a compiler run or a transaction group sent by the pipeline
Ran(s, kind, what) == [s EXCEPT !.did = s.did \cup {<<kind, what>>}]

\* mutant: only the deployed dir of mainnet is checked
AlreadyDeployedMainnetOnly(network, files) == network = "mainnet" /\ files # {}
\* CreateApp: the deployed dir of a network other than devnet is not empty
AlreadyDeployed(network, files) == network # "devnet" /\ files # {}

\* writeTreeConfig()
writeTreeConfig(s) == Wrote(s, TreeConfigPath, s.mtime[TreeConfigPath] = 0)

\* the body of generateVerifier under `if outdatedCircuit || outdatedVerifier`
regenerateVerifier(s, c) ==
    LET s1 == Ran(s, "compile", c.VerifierName)
        s2 == Wrote(s1, c.CompiledPath, TRUE)
        s3 == Wrote(s2, VerifierPath(c), TRUE)
        s4 == Ran(s3, "puyapy", c.VerifierName)
    IN  Wrote(s4, VerifierTealPath(c), TRUE)

\* generateVerifier(curve, c)
generateVerifier(s, c) ==
    LET outdatedCircuit == ShouldRecompile(s.mtime, c.CompiledPath, {c.DefinitionPath})
        outdatedVerifier == ShouldRecompile(s.mtime, VerifierPath(c), {c.CompiledPath})
        outdated == outdatedCircuit \/ outdatedVerifier
        s1 == IF outdated THEN regenerateVerifier(s, c) ELSE s
        s2 == Ran(s1, "tealc", c.VerifierName)
    IN  Wrote(s2, VerifierBytecodePath(c), outdated)

\* changeValueInFile(MainContractSourcePath, changes): the file is written
\* when a constant on file differs from the configuration
changeValueInFile(s) ==
    IF s.constantsCurrent THEN s
    ELSE [Wrote(s, MainContractSourcePath, TRUE) EXCEPT !.constantsCurrent = TRUE]

\* updateZeroHashesInFile(MainContractSourcePath, hashes): the lines between
\* `zero_hashes = ` and `)` are replaced and the file is written, when there
\* are at least two such lines
updateZeroHashesInFile(s) ==
    IF s.block.lines >= 2
    THEN [Wrote(s, MainContractSourcePath, ~s.block.current)
            EXCEPT !.block = [lines |-> MerkleTreeLevels, current |-> TRUE]]
    ELSE s

\* updateConstantsInSmartContracts()
updateConstantsInSmartContracts(s) == updateZeroHashesInFile(changeValueInFile(s))

\* compileMainContract(depositVerifierAddress, withdrawalVerifierAddress)
compileMainContract(s) ==
    LET approvalSources == {MainContractSourcePath,
                            VerifierTealPath(DepositCircuitData),
                            VerifierTealPath(WithdrawalCircuitData)}
        recompile == \/ ShouldRecompile(s.mtime, ApprovalTealPath, approvalSources)
                     \/ ShouldRecompile(s.mtime, ClearTealPath, {MainContractSourcePath})
        s1 == Ran(s, "puyapy", "APP")
        s2 == Wrote(s1, ApprovalTealPath, TRUE)
        s3 == Wrote(s2, ClearTealPath, TRUE)
        s4 == Wrote(s3, AppSchemaPath, TRUE)
        s5 == Wrote(s4, ApprovalTealPath, TRUE)
    IN  IF recompile THEN Wrote(s5, ClearTealPath, TRUE) ELSE s

\* deployMainContract(), with the id and the round the ledger answers
deployMainContract(s, appId, deployedBlock) ==
    LET app == [Id |-> appId, CreationBlock |-> deployedBlock]
        s1 == [Ran(s, "send", "create")
                 EXCEPT !.created = app, !.apps[s.network] = @ \cup {appId}]
    IN  IF s.mtime[AppPath] # 0
        THEN IF s.appOnFile.Id # appId
             THEN [Wrote(s1, AppPath, TRUE) EXCEPT !.appOnFile = app]
             ELSE s1
        ELSE [Wrote(s1, AppPath, TRUE) EXCEPT !.appOnFile = app]

\* setupTSS(appId)
setupTSS(s, appId) ==
    LET recompile == ShouldRecompile(s.mtime, TssTealPath, {TssSourcePath, AppPath})
        s1 == Ran(s, "puyapy", "TSS")
        s2 == Wrote(s1, TssTealPath, TRUE)
        s3 == [Wrote(s2, TssTealPath, TRUE) EXCEPT !.tssAppId = appId]
        s4 == IF recompile THEN s3 ELSE s
        s5 == Ran(s4, "tealc", "TSS")
    IN  Wrote(s5, TssBytecodePath, recompile)

\* initMainContract(appId, tssAddress)
initMainContract(s) == Ran(s, "send", "init")

\* exportSetupFiles(network)
exportSetupFiles(s) ==
    [s EXCEPT !.deployed[s.network] =
                 [files |-> {AppPath, TreeConfigPath, AppSchemaPath, TssBytecodePath,
                             VerifierBytecodePath(DepositCircuitData),
                             VerifierBytecodePath(WithdrawalCircuitData),
                             DepositCircuitData.CompiledPath,
                             WithdrawalCircuitData.CompiledPath},
                  app |-> s.appOnFile]]

\* the build sub-steps that compare modification times
SubSteps ==
    {<<"circuit", "DepositVerifier">>, <<"circuit", "WithdrawalVerifier">>,
     <<"verifier", "DepositVerifier">>, <<"verifier", "WithdrawalVerifier">>,
     <<"main", "APP">>, <<"tss", "TSS">>}

CircuitOf(x) ==
    IF x[2] = "DepositVerifier" THEN DepositCircuitData ELSE WithdrawalCircuitData

\* the artefact of a sub-step and the sources it is compared with
ArtefactsOf(x) ==
    CASE x[1] = "circuit" -> {CircuitOf(x).CompiledPath}
      [] x[1] = "verifier" -> {VerifierPath(CircuitOf(x))}
      [] x[1] = "main" -> {ApprovalTealPath, ClearTealPath}
      [] OTHER -> {TssTealPath}

SourcesOf(x) ==
    CASE x[1] = "circuit" -> {CircuitOf(x).DefinitionPath}
      [] x[1] = "verifier" -> {CircuitOf(x).CompiledPath}
      [] x[1] = "main" -> {MainContractSourcePath,
                           VerifierTealPath(DepositCircuitData),
                           VerifierTealPath(WithdrawalCircuitData)}
      [] OTHER -> {TssSourcePath, AppPath}

\* the work of a sub-step, as it shows in the effects of a run
WorkOf(x) ==
    CASE x[1] = "circuit" -> {<<"compile", x[2]>>, <<"write", CircuitOf(x).CompiledPath>>}
      [] x[1] = "verifier" -> {<<"puyapy", x[2]>>, <<"write", VerifierPath(CircuitOf(x))>>}
      [] x[1] = "main" -> {<<"puyapy", "APP">>, <<"write", ApprovalTealPath>>,
                           <<"write", ClearTealPath>>}
      [] OTHER -> {<<"puyapy", "TSS">>, <<"write", TssTealPath>>}

\* the sub-steps whose artefacts are newer than their sources
UpToDate(mtime) ==
    { x \in SubSteps :
        \A a \in ArtefactsOf(x) : ~ShouldRecompile(mtime, a, SourcesOf(x)) }

\* the main contract's source of a checkout: its constants and its block of
\* zero hashes agree with the configuration or are out of date, or the block
\* is missing or one line long
MainContractSources ==
    {[constantsCurrent |-> TRUE,
      block |-> [lines |-> MerkleTreeLevels, current |-> TRUE]],
     [constantsCurrent |-> FALSE,
      block |-> [lines |-> MerkleTreeLevels, current |-> FALSE]],
     [constantsCurrent |-> TRUE, block |-> [lines |-> 1, current |-> FALSE]],
     [constantsCurrent |-> TRUE, block |-> [lines |-> 0, current |-> FALSE]]}

\* a checkout: the sources are on file, nothing is generated; the deployed
\* dirs are empty, or hold the files of an earlier deployment
SetupInit ==
    /\ CoreInit
    /\ ecies = [stage |-> "none"]
    /\ circuit = [stage |-> "none"]
    /\ \E deployed \in BOOLEAN, source \in MainContractSources :
          setup = [pc |-> "idle", network |-> "none", run |-> 0, edits |-> 0,
                   clock |-> 1,
                   mtime |-> [f \in Files |-> IF f \in SourceFiles THEN 1 ELSE 0],
                   ver |-> [f \in Files |-> IF f \in SourceFiles THEN 1 ELSE 0],
                   constantsCurrent |-> source.constantsCurrent,
                   block |-> source.block,
                   appOnFile |-> NoApp, tssAppId |-> 0,
                   deployed |-> [n \in Networks |->
                                   [files |-> IF deployed THEN {AppPath} ELSE {},
                                    app |-> NoApp]],
                   apps |-> [n \in Networks |-> {}],
                   created |-> NoApp, did |-> {}, edited |-> FALSE,
                   start |-> [mtime |-> [f \in Files |-> 0], ver |-> [f \in Files |-> 0],
                              upToDate |-> {}, afterRun |-> FALSE, files |-> {}]]

SetupStep(s) ==
    /\ setup' = s
    /\ UNCHANGED <<treeVars, proofRes, frontendVars, chainVars, ecies, circuit>>

Resting == setup.pc \in {"idle", "done", "aborted", "failed"}

\* a developer edits a source file between two runs
EditSource ==
    /\ setup.pc \in {"done", "aborted"}
    /\ setup.edits < MaxEdits
    /\ \E f \in SourceFiles :
          SetupStep([setup EXCEPT !.clock = setup.clock + 1,
                                  !.mtime[f] = setup.clock + 1,
                                  !.ver[f] = setup.ver[f] + 1,
                                  !.edits = setup.edits + 1,
                                  !.edited = TRUE])

\* CreateApp(network) up to the check of the deployed dir
CreateApp ==
    /\ Resting
    /\ setup.run < MaxRuns
    /\ \E network \in Networks :
          SetupStep([setup EXCEPT
              !.network = network,
              !.run = setup.run + 1,
              !.created = NoApp,
              !.did = {},
              !.edited = FALSE,
              !.start = [mtime |-> setup.mtime, ver |-> setup.ver,
                         upToDate |-> UpToDate(setup.mtime),
                         afterRun |-> setup.pc = "done" /\ ~setup.edited,
                         files |-> setup.deployed[network].files],
              !.pc = IF AlreadyDeployed(network, setup.deployed[network].files)
                     THEN "aborted" ELSE "writeTreeConfig"])

\* the pipeline moves on to its next step
Goto(s, next) == [s EXCEPT !.pc = next]

WriteTreeConfig ==
    /\ setup.pc = "writeTreeConfig"
    /\ SetupStep(Goto(writeTreeConfig(setup), "depositVerifier"))

GenerateDepositVerifier ==
    /\ setup.pc = "depositVerifier"
    /\ SetupStep(Goto(generateVerifier(setup, DepositCircuitData), "withdrawalVerifier"))

GenerateWithdrawalVerifier ==
    /\ setup.pc = "withdrawalVerifier"
    /\ SetupStep(Goto(generateVerifier(setup, WithdrawalCircuitData), "updateConstants"))

UpdateConstantsInSmartContracts ==
    /\ setup.pc = "updateConstants"
    /\ SetupStep(Goto(updateConstantsInSmartContracts(setup), "compileMainContract"))

CompileMainContract ==
    /\ setup.pc = "compileMainContract"
    /\ SetupStep(Goto(compileMainContract(setup), "deployMainContract"))

\* the ledger of the network gives the new application its next id
DeployMainContract ==
    /\ setup.pc = "deployMainContract"
    /\ \E deployedBlock \in Blocks :
          SetupStep(Goto(deployMainContract(setup, NextAppId(setup.apps[setup.network]),
                                            deployedBlock), "setupTSS"))

SetupTSS ==
    /\ setup.pc = "setupTSS"
    /\ SetupStep(Goto(setupTSS(setup, setup.created.Id), "initMainContract"))

InitMainContract ==
    /\ setup.pc = "initMainContract"
    /\ SetupStep(Goto(initMainContract(setup), "exportSetupFiles"))

ExportSetupFiles ==
    /\ setup.pc = "exportSetupFiles"
    /\ SetupStep(Goto(exportSetupFiles(setup), "done"))

\* the steps that talk to the ledger or copy the files, where an error ends
\* the process with log.Fatalf
FallibleSteps == {"deployMainContract", "setupTSS", "initMainContract", "exportSetupFiles"}

\* log.Fatalf: the step fails at its first operation and the process exits
Fatal ==
    /\ setup.pc \in FallibleSteps
    /\ SetupStep(Goto(setup, "failed"))

SetupNext ==
    \/ EditSource
    \/ Fatal
    \/ CreateApp
    \/ WriteTreeConfig
    \/ GenerateDepositVerifier
    \/ GenerateWithdrawalVerifier
    \/ UpdateConstantsInSmartContracts
    \/ CompileMainContract
    \/ DeployMainContract
    \/ SetupTSS
    \/ InitMainContract
    \/ ExportSetupFiles

SpecSetup == SetupInit /\ [][SetupNext]_vars

(***************************************************************************)
(* Claims about the deploy pipeline                                        *)
(***************************************************************************)
\* a run of CreateApp has started
RunStarted == setup.pc \notin {"none", "idle"}

\* the run found files in the deployed dir of mainnet or testnet
DeployedDirInUse == setup.network # "devnet" /\ setup.start.files # {}

\* the run has written no file, run no compiler and sent no transaction
NothingDone ==
    /\ setup.did = {}
    /\ setup.created = NoApp
    /\ \A f \in Artefacts : /\ setup.mtime[f] = setup.start.mtime[f]
                            /\ setup.ver[f] = setup.start.ver[f]

\* C17: for mainnet and testnet, a run of CreateApp that finds its network's
\* output directory non-empty aborts before any artefact is written, any
\* contract is compiled or any transaction is sent; a run for devnet, and a
\* run that finds the directory empty, is never aborted by this check.
C17_NonEmptyDirAborts ==
    RunStarted =>
        IF DeployedDirInUse
        THEN setup.pc = "aborted" /\ NothingDone
        ELSE setup.pc # "aborted"

\* a second run for testnet or mainnet, after a run that exported its files
\* there, was aborted; a run for devnet went past a non-empty directory
C17_Witness ==
    /\ setup.run = 2
    /\ setup.pc = "aborted"
    /\ DeployedDirInUse
    /\ setup.mtime[AppPath] # 0

C17_WitnessDevnet ==
    /\ setup.network = "devnet"
    /\ setup.start.files # {}
    /\ setup.pc = "done"

\* deployMainContract has returned in the current run
Deployed == setup.pc \in {"setupTSS", "initMainContract", "exportSetupFiles", "done"}

\* C18: after every successful deployMainContract, App.json holds exactly the
\* id and the creation block of the application created in that run, whatever
\* the file held before.
C18_AppFileHoldsCreatedApp ==
    Deployed => setup.mtime[AppPath] # 0 /\ setup.appOnFile = setup.created

\* the file of an earlier deployment has the id of the application created now
\* and another creation block, and is exported as it is
C18_StaleAppExported ==
    /\ setup.pc = "done"
    /\ setup.appOnFile.Id = setup.created.Id
    /\ setup.appOnFile.CreationBlock # setup.created.CreationBlock
    /\ setup.deployed[setup.network].app = setup.appOnFile

\* the current run follows a run that completed, with no source file edited
\* in between
SecondRun == RunStarted /\ setup.start.afterRun

\* no source of the sub-step has a content other than at the start of the run
SourcesUnchanged(x) == \A src \in SourcesOf(x) : setup.ver[src] = setup.start.ver[src]

\* the run has done none of the work of the sub-step
Skipped(x) == WorkOf(x) \cap setup.did = {}

\* C19: in a second run started after a successful run with no source file
\* changed, every build sub-step whose artefact is newer than its sources
\* (circuit compile, verifier generation, main-contract compile and template
\* substitution, treasury compile) is skipped.
C19_UpToDateSkipped ==
    SecondRun =>
        \A x \in SubSteps :
            x \in setup.start.upToDate /\ SourcesUnchanged(x) => Skipped(x)

\* the sub-steps other than the compile of the main contract are skipped
C19_OthersSkipped ==
    SecondRun =>
        \A x \in SubSteps \ {<<"main", "APP">>} :
            x \in setup.start.upToDate /\ SourcesUnchanged(x) => Skipped(x)

\* a second run has gone through its build steps with every artefact up to
\* date at its start
C19_SecondRunBuilt ==
    /\ SecondRun
    /\ setup.start.upToDate = SubSteps
    /\ setup.pc = "done"

(***************************************************************************)
(* The Tree filled to its capacity                                         *)
(***************************************************************************)
\* the leaves a tree of Depth levels has room for
Capacity == Pow2(Depth)

\* tree.addLeaf(leaf) on a tree that is not full, or full; addLeaf returns the
\* index of the leaf and has no other result
AppendLeaf ==
    /\ Len(leafHashes) <= Capacity
    /\ \E v \in LeafValues :
          /\ SetTree(addLeaf(TheTree, Hash(<<v>>)))
          /\ proofRes' = [op |-> "addLeaf", index |-> Len(leafHashes), leafValue |-> v,
                          proof |-> <<>>, err |-> "nil", verified |-> FALSE]
    /\ UNCHANGED <<frontendVars, chainVars>>
    /\ UNCHANGED auxVars

FullTreeNext == AppendLeaf

SpecFullTree == TreeInit /\ [][FullTreeNext]_vars

\* C20: appending a leaf to a full accumulator (2^Depth leaves inserted) is
\* rejected: the append does not add the leaf, does not change the frontier
\* or the root, and reports the failure.
C20_FullTreeAppendRejected ==
    [][Len(leafHashes) = Capacity =>
          /\ leafHashes' = leafHashes
          /\ subTree' = subTree
          /\ proofRes'.err # "nil"]_vars

\* a leaf was appended to a full tree, and the root is another one
C20_OverfullTree ==
    /\ Len(leafHashes) = Capacity + 1
    /\ proofRes.op = "addLeaf"
    /\ proofRes.index = Capacity
    /\ proofRes.err = "nil"

(***************************************************************************)
(* Claims about the coordinator's local state                              *)
(***************************************************************************)
\* the step is a SendDeposit or SendWithdrawal call that returns
CallReturns == res' # res /\ (res'.op = "deposit" \/ res'.stage = "done")

\* the step appends a note with its index to the mirror and to the list
Mirrored(list, index) ==
    /\ Len(list') = Len(list) + 1
    /\ SubSeq(list', 1, Len(list)) = list
    /\ list'[Len(list')].insertedIndex = index
    /\ leafHashes' = Append(leafHashes, list'[Len(list')].commitment)

\* C21: SendDeposit and SendWithdrawal change local state atomically: a call
\* that returns an error (or ends in a panic) leaves leafHashes, Deposits,
\* Withdrawals and with them the insertedIndex of every stored note as they
\* were; a call that succeeds appends its note together with its index; the
\* part of SendWithdrawal before the submission changes nothing.
C21_AtomicLocalState ==
    [][(res' # res) =>
          IF ~CallReturns \/ res'.err # "nil"
          THEN UNCHANGED localVars
          ELSE IF res'.op = "deposit"
          THEN Mirrored(Deposits, res'.index) /\ UNCHANGED Withdrawals
          ELSE Mirrored(Withdrawals, res'.changeIndex) /\ UNCHANGED Deposits]_vars

\* a deposit was confirmed on chain and failed the root check, with notes
\* stored from earlier calls
C21_Witness ==
    /\ res.op = "deposit"
    /\ res.err = "root mismatch"
    /\ Len(Deposits) >= 1
    /\ Len(chainLeaves) > Len(leafHashes)

(***************************************************************************)
(* The withdrawal circuit with a spent and an unspent note, and with       *)
(* addresses in place of public keys (circuits.WithdrawalCircuit of the    *)
(* Mithras protocol).  Amounts are elements of the scalar field.           *)
(***************************************************************************)
\* api.Add(a, b)
FieldAdd(a, b) == (a + b) % FieldModulus

\* a coordinate that is zero, as the bytes of a field element
ZeroCoordinate == <<0>>

\* validateAddressXYConstraint(api, address, x, y): Address == 0 OR (X == 0 AND Y == 0)
validateAddressXYConstraint(address, x, y) ==
    address = 0 \/ (x = ZeroCoordinate /\ y = ZeroCoordinate)

\* verifyHashCommitment(api, mimc, commitment, iterations, values...)
RECURSIVE HashTimes(_, _)
HashTimes(h, n) == IF n = 0 THEN h ELSE HashTimes(Hash(<<h>>), n - 1)

verifyHashCommitment(commitment, iterations, values) ==
    commitment = HashTimes(Hash(values), iterations - 1)

\* the constraints on the two addresses
AddressConstraints(c) ==
    /\ validateAddressXYConstraint(c.SpenderAddess, c.SpenderX, c.SpenderY)
    /\ validateAddressXYConstraint(c.OutputAddress, c.OutputX, c.OutputY)

\* the nullifier and the commitments of the unspent and the spent note
CommitmentConstraints(c) ==
    /\ verifyHashCommitment(c.Nullifier, 1, << <<c.SpendableAmount>>, c.SpendableK >>)
    /\ verifyHashCommitment(c.UnspentCommitment, 2,
          << <<c.UnspentAmount>>, c.UnspentK, c.UnspentR, c.SpenderX, c.SpenderY >>)
    /\ verifyHashCommitment(c.SpentCommitment, 2,
          << <<c.SpentAmount>>, c.SpentK, c.SpentR, c.OutputX, c.OutputY >>)

\* eddsa.Verify(curve, c.Signature, c.UnspentCommitment, pubkey, &mimc).  No
\* signature verifies under (0, 0), which is not a point of the curve.
SignatureConstraint(c) ==
    EddsaVerify(c.Signature, c.UnspentCommitment, c.SpenderX, c.SpenderY)

\* the leaf opening and mp.VerifyProof
MembershipConstraints(c) ==
    /\ verifyHashCommitment(c.SpendablePath[1], 1,
          << <<c.SpendableAmount>>, c.SpendableK, c.SpendableR, c.SpenderX, c.SpenderY >>)
    /\ Len(c.SpendablePath) = Depth + 1
    /\ verify(c.SpendableIndex, c.SpendablePath, c.Root)

\* the balance as a statement about natural numbers, with no wrap-around
BalanceOverNaturals(c) ==
    /\ c.WithdrawalAmount + c.SpentAmount <= c.SpendableAmount
    /\ c.Fee <= c.SpendableAmount - (c.WithdrawalAmount + c.SpentAmount)
    /\ c.UnspentAmount = c.SpendableAmount - (c.WithdrawalAmount + c.SpentAmount) - c.Fee

\* totalSpent := api.Add(WithdrawalAmount, SpentAmount) and the three
\* assertions on it
SpendBalanceConstraints(c) ==
    LET totalSpent == FieldAdd(c.WithdrawalAmount, c.SpentAmount)
    IN  /\ IsLessOrEqual(totalSpent, c.SpendableAmount)
        /\ IsLessOrEqual(c.Fee, FieldSub(c.SpendableAmount, totalSpent))
        /\ c.UnspentAmount % FieldModulus =
              FieldSub(FieldSub(c.SpendableAmount, totalSpent), c.Fee)

\* WithdrawalCircuit.Define
WithdrawalCircuitDefine(c) ==
    /\ AddressConstraints(c)
    /\ CommitmentConstraints(c)
    /\ SignatureConstraint(c)
    /\ MembershipConstraints(c)
    /\ SpendBalanceConstraints(c)

\* amounts on either side of zero in the field
SmallAmounts == 0..MaxAmount
WrappedAmounts == { FieldModulus - k : k \in 1..MaxAmount }

\* the private key of the spender and of the receiver of the spent note
SpenderKey == 1
OutputKey == 2

\* a public key given to the circuit: the point of a private key, or (0, 0)
KeyXY(key) ==
    IF key = 0 THEN [X |-> ZeroCoordinate, Y |-> ZeroCoordinate]
    ELSE [X |-> PointX(PublicKey(key)), Y |-> PointY(PublicKey(key))]

\* something that is not a signature of the spender
NoSignature == [signer |-> 0, msg |-> <<>>]

\* the assignment a prover makes for the given amounts, addresses and keys:
\* the spendable note is the first leaf of the tree, and the hashes and the
\* Merkle path are computed from the private inputs
Assignment(amounts, spenderAddress, spender, outputAddress, output, signed) ==
    LET sxy == KeyXY(spender)
        oxy == KeyXY(output)
        leafValue == Hash(<< <<amounts.spendable>>, <<41>>, <<42>>, sxy.X, sxy.Y >>)
        unspent == HashTimes(Hash(<< <<amounts.unspent>>, <<43>>, <<44>>,
                                     sxy.X, sxy.Y >>), 1)
        spent == HashTimes(Hash(<< <<amounts.spent>>, <<45>>, <<46>>, oxy.X, oxy.Y >>), 1)
    IN  [WithdrawalAddress |-> 7,
         WithdrawalAmount |-> amounts.withdrawal,
         Fee |-> amounts.fee,
         Nullifier |-> Hash(<< <<amounts.spendable>>, <<41>> >>),
         Root |-> ChainRoot(<< Hash(<<leafValue>>) >>),
         UnspentCommitment |-> unspent,
         SpentCommitment |-> spent,
         SpenderAddess |-> spenderAddress,
         OutputAddress |-> outputAddress,
         SpenderX |-> sxy.X, SpenderY |-> sxy.Y,
         Signature |-> IF signed THEN Sign(SpenderKey, unspent) ELSE NoSignature,
         OutputX |-> oxy.X, OutputY |-> oxy.Y,
         SpendableK |-> <<41>>, SpendableR |-> <<42>>,
         SpendableAmount |-> amounts.spendable,
         SpendableIndex |-> 0,
         SpendablePath |-> <<leafValue>> \o SubSeq(ZeroHashes, 1, Depth),
         SpentAmount |-> amounts.spent, SpentK |-> <<45>>, SpentR |-> <<46>>,
         UnspentAmount |-> amounts.unspent, UnspentK |-> <<43>>, UnspentR |-> <<44>>]

\* the amounts of an assignment: the public ones and the amount of the note
\* being spent are small, the private ones any element of the field
AssignedAmounts ==
    [spendable : SmallAmounts, withdrawal : SmallAmounts, fee : SmallAmounts,
     spent : SmallAmounts \cup WrappedAmounts,
     unspent : SmallAmounts \cup WrappedAmounts]

CircuitInit ==
    /\ CoreInit
    /\ ecies = [stage |-> "none"]
    /\ setup = [pc |-> "none"]
    /\ \E amounts \in AssignedAmounts, spenderAddress \in {0, 5}, spender \in {0, SpenderKey},
          outputAddress \in {0, 6}, output \in {0, OutputKey}, signed \in BOOLEAN :
          circuit = [stage |-> "assigned",
                     c |-> Assignment(amounts, spenderAddress, spender, outputAddress,
                                      output, signed)]

\* the prover checks the assignment against the circuit (Cc.Verify)
VerifyAssignment ==
    /\ circuit.stage = "assigned"
    /\ circuit' = [stage |-> "checked", c |-> circuit.c,
                   satisfied |-> WithdrawalCircuitDefine(circuit.c)]
    /\ UNCHANGED <<treeVars, proofRes, frontendVars, chainVars, ecies, setup>>

CircuitNext == VerifyAssignment

SpecCircuit == CircuitInit /\ [][CircuitNext]_vars

(***************************************************************************)
(* Claims about the withdrawal circuit                                     *)
(***************************************************************************)
Checked == circuit.stage = "checked"

\* C22: every assignment that satisfies the balance constraints of the
\* withdrawal circuit conserves value over the natural numbers:
\* withdrawalAmount + spentAmount <= amount_s, fee <= amount_s - (withdrawalAmount
\* + spentAmount) and unspentAmount = amount_s - withdrawalAmount - spentAmount
\* - fee hold without wrap-around modulo the field.
C22_ValueConserved ==
    (Checked /\ SpendBalanceConstraints(circuit.c)) => BalanceOverNaturals(circuit.c)

\* the whole circuit is satisfied by a withdrawal that pays out more than the
\* note being spent holds, with a spent note of an amount below zero
C22_Inflation ==
    /\ Checked
    /\ circuit.satisfied
    /\ circuit.c.WithdrawalAmount > circuit.c.SpendableAmount
    /\ circuit.c.SpentAmount \in WrappedAmounts

\* the spender is given by a public key, not by an address
KeyBased(c) == c.SpenderAddess = 0

\* C23: a non-zero spenderAddress forces (Sx, Sy) = (0, 0) and a non-zero
\* outputAddress forces (Ox, Oy) = (0, 0); the signature over
\* unspentCommitment has to be valid under (Sx, Sy) only when the spender is
\* key-based, so that an assignment with a non-zero spenderAddress that meets
\* the other constraints satisfies the circuit without such a signature.
C23_SignatureOnlyIfKeyBased ==
    Checked =>
        /\ circuit.satisfied =>
              /\ circuit.c.SpenderAddess # 0 =>
                    circuit.c.SpenderX = ZeroCoordinate /\ circuit.c.SpenderY = ZeroCoordinate
              /\ circuit.c.OutputAddress # 0 =>
                    circuit.c.OutputX = ZeroCoordinate /\ circuit.c.OutputY = ZeroCoordinate
        /\ circuit.satisfied <=>
              /\ AddressConstraints(circuit.c)
              /\ CommitmentConstraints(circuit.c)
              /\ KeyBased(circuit.c) => SignatureConstraint(circuit.c)
              /\ MembershipConstraints(circuit.c)
              /\ SpendBalanceConstraints(circuit.c)

\* a non-zero address forces the coordinates of its public key to be zero
C23_AddressForcesZeroKey ==
    (Checked /\ circuit.satisfied) =>
        /\ circuit.c.SpenderAddess # 0 =>
              circuit.c.SpenderX = ZeroCoordinate /\ circuit.c.SpenderY = ZeroCoordinate
        /\ circuit.c.OutputAddress # 0 =>
              circuit.c.OutputX = ZeroCoordinate /\ circuit.c.OutputY = ZeroCoordinate

\* no assignment with a non-zero spenderAddress satisfies the circuit
C23_AddressSpenderUnsatisfiable ==
    (Checked /\ circuit.c.SpenderAddess # 0) => ~circuit.satisfied

\* a withdrawal to an address was proved by a key-based spender
C23_OutputAddressSatisfied ==
    /\ Checked
    /\ circuit.satisfied
    /\ circuit.c.OutputAddress # 0

(***************************************************************************)
(* Claims about the reconciliation with the chain                          *)
(***************************************************************************)
\* the step is a call that returns from a group the ledger confirmed
ConfirmedReturn ==
    /\ CallReturns
    /\ (chainLeaves' # chainLeaves \/ nullifiers' # nullifiers)

\* the root in the result of the method the confirmed group called: the root
\* after the application inserted the leaf of the call
MethodResultRoot ==
    IF res'.op = "deposit" THEN res'.root
    ELSE IF res'.noChange THEN roots[1]
    ELSE ChainRoot(SubSeq(chainLeaves', 1, res'.changeIndex + 1))

\* C24: after each confirmed submission, deposit and withdrawal alike, the
\* coordinator compares the root of the method result with the root key on
\* chain before it updates local state: on a mismatch the call fails and no
\* leaf is mirrored.
C24_RootChecked ==
    [][(ConfirmedReturn /\ MethodResultRoot # roots'[1]) =>
          (res'.err # "nil" /\ UNCHANGED localVars)]_vars

\* the root check a deposit makes
C24_DepositRootChecked ==
    [][(ConfirmedReturn /\ res'.op = "deposit" /\ MethodResultRoot # roots'[1]) =>
          (res'.err = "root mismatch" /\ UNCHANGED localVars)]_vars

\* a withdrawal returned without error while the root on chain was not the
\* root of its method result
C24_WithdrawalUnchecked ==
    /\ res.op = "withdraw"
    /\ res.stage = "done"
    /\ res.err = "nil"
    /\ ~res.noChange
    /\ Len(chainLeaves) > res.changeIndex + 1
    /\ Len(Withdrawals) >= 1
    /\ Withdrawals[Len(Withdrawals)].insertedIndex = res.changeIndex

(***************************************************************************)
(* Claims about the frontier and the zero hashes of the Tree               *)
(***************************************************************************)
\* the hash of the node at `level` that contains the leaf at `index`, in the
\* tree of the inserted leaves padded with the canonical zero hash
NodeContaining(level, index) ==
    LET first == (index \div Pow2(level)) * Pow2(level)
        last == IF first + Pow2(level) < Len(leafHashes)
                THEN first + Pow2(level) ELSE Len(leafHashes)
    IN  RootFromLeaves(SubSeq(leafHashes, first + 1, last), ZeroHashes[1], level)

\* C25: after n >= 1 leaves are inserted, subTree[i] is for every level i in
\* 0..Depth the hash of the node of level i that contains leaf n-1, and
\* subTree[Depth] is the root.
C25_FrontierInvariant ==
    (Len(leafHashes) >= 1 /\ Len(leafHashes) <= Pow2(Depth)) =>
        \A i \in 0..Depth :
            subTree[i + 1] = NodeContaining(i, Len(leafHashes) - 1)

\* at level 0 the node that contains leaf n-1 is that leaf
C25_LeafLevel ==
    (Len(leafHashes) >= 1 /\ Len(leafHashes) <= Pow2(Depth)) =>
        subTree[1] = leafHashes[Len(leafHashes)]

\* at level 0 the frontier holds the latest leaf with an even index
C25_LeftLeafKept ==
    (Len(leafHashes) >= 1 /\ Len(leafHashes) <= Pow2(Depth)) =>
        subTree[1] = leafHashes[2 * ((Len(leafHashes) - 1) \div 2) + 1]

\* C26: a withdrawal sent with noChange = true adds no change leaf to the
\* tree, and the mirror leafHashes stays equal to the leaves on chain: after
\* successful deposits and withdrawals of a single coordinator every stored
\* note with insertedIndex >= 0 has leafHashes[insertedIndex] = commitment,
\* and leafHashes is as long as the sequence of leaves inserted on chain.
C26_MirrorFollowsChain ==
    ForeignLeaves = {} =>
        /\ Len(leafHashes) = Len(chainLeaves)
        /\ \A n \in StoredNotes :
              n.insertedIndex >= 0 =>
                  /\ n.insertedIndex < Len(leafHashes)
                  /\ leafHashes[n.insertedIndex + 1] = n.commitment

\* the same when every withdrawal has a change note
C26_MirrorWithChange ==
    (/\ ForeignLeaves = {}
     /\ \A i \in 1..Len(Withdrawals) :
           \E j \in 1..Len(chainLeaves) : chainLeaves[j] = Withdrawals[i].commitment) =>
        /\ leafHashes = chainLeaves
        /\ \A n \in StoredNotes :
              n.insertedIndex >= 0 => leafHashes[n.insertedIndex + 1] = n.commitment

\* a withdrawal with noChange was confirmed and its change commitment, which
\* is not on chain, is in the mirror
C26_PhantomLeaf ==
    /\ res.op = "withdraw"
    /\ res.stage = "done"
    /\ res.err = "nil"
    /\ res.noChange
    /\ ForeignLeaves = {}
    /\ Len(leafHashes) = Len(chainLeaves) + 1
    /\ Withdrawals[Len(Withdrawals)].commitment = leafHashes[Len(leafHashes)]

\* the zero hashes of the tree are the canonical ones
CanonicalZeroHashes ==
    /\ Len(zeroHashes) = Depth + 1
    /\ zeroHashes[1] = Hash(<<ZeroValue>>)
    /\ \A i \in 1..Depth : zeroHashes[i + 1] = Hash(<<zeroHashes[i], zeroHashes[i]>>)

\* C27: the zero hashes are constant: in every state reached from NewTree by
\* addLeaf and createMerkleProof, zeroHashes[0] = H(zeroValue) and
\* zeroHashes[i] = H(zeroHashes[i-1], zeroHashes[i-1]) for 1 <= i <= Depth;
\* addLeaf changes subTree and leafHashes only, createMerkleProof nothing.
C27_ZeroHashesConstant ==
    [][/\ CanonicalZeroHashes'
       /\ zeroHashes' = zeroHashes
       /\ proofRes'.op = "proof" => UNCHANGED treeVars]_vars

\* createMerkleProof changes nothing of the tree
C27_ProofChangesNothing ==
    [][proofRes'.op = "proof" => UNCHANGED treeVars]_vars

\* a leaf was added and the zero hash of level 0 is that leaf
C27_ZeroHashOverwritten ==
    /\ Len(leafHashes) = 1
    /\ zeroHashes[1] = leafHashes[1]
    /\ zeroHashes[1] # Hash(<<ZeroValue>>)

\* C30: createMerkleProof reports bad inputs as error values and never
\* aborts: for an index >= len(leafHashes), also on an empty tree, it returns
\* the error "index out of range"; for an index in range whose leaf hash is
\* not H(leafValue) it returns "leaf value does not map to hash at index"; the
\* tree is unchanged in both cases.
C30_ProofErrorsAreValues ==
    [][proofRes'.op = "proof" =>
          /\ UNCHANGED treeVars
          /\ proofRes'.index >= Len(leafHashes) =>
                proofRes'.err = "index out of range"
          /\ (/\ proofRes'.index < Len(leafHashes)
              /\ leafHashes[proofRes'.index + 1] # Hash(<<proofRes'.leafValue>>)) =>
                proofRes'.err = "leaf value does not map to hash at index"]_vars

\* the error for a leaf value that is not the one stored at the index
C30_WrongLeafValueIsError ==
    [][(/\ proofRes'.op = "proof"
        /\ proofRes'.index < Len(leafHashes)
        /\ leafHashes[proofRes'.index + 1] # Hash(<<proofRes'.leafValue>>)) =>
          /\ proofRes'.err = "leaf value does not map to hash at index"
          /\ UNCHANGED treeVars]_vars

\* no call returns the error "index out of range"
C30_RangeErrorNeverReturned ==
    proofRes.err # "index out of range"

\* createMerkleProof was called with an index that is not in the tree, and
\* the read of t.leafHashes[index] ended the program
C30_OutOfRangePanics ==
    /\ proofRes.op = "proof"
    /\ proofRes.index >= Len(leafHashes)
    /\ proofRes.err = "panic: index out of range"

(***************************************************************************)
(* Withdrawals with a fee chosen by the caller, at and below the cost of   *)
(* the nullifier box                                                       *)
(***************************************************************************)
\* opts.fee: the default, the cost of the nullifier box, and fees below it
CallerFees == {0, 1, NullifierMbr - 1, NullifierMbr}

FeeInputs ==
    [Inputs EXCEPT !.leaves = MaxScenarioLeaves, !.fees = CallerFees, !.noChange = {FALSE}]

FeesNext ==
    \/ SendDepositWith(FeeInputs)
    \/ SendWithdrawalWith(FeeInputs)
    \/ ExecuteWithdrawal

SpecFees == Init /\ [][FeesNext]_vars

\* sp.Fee of the fee-paying no-op of the composed withdrawal group
NetworkFee == pending.group[2].fee

\* C29: for every opts.fee the network fee of the fee-paying no-op of a
\* withdrawal group is fee - NullifierMbr with no wrap-around of the uint64
\* and is not above the fee declared in the proof; a non-zero opts.fee below
\* NullifierMbr gives no group with a transaction fee above opts.fee.
C29_NetworkFeeWithinFee ==
    WithdrawalGroupComposed =>
        /\ NetworkFee = pending.fee - NullifierMbr
        /\ NetworkFee <= pending.fee
        /\ (res.optFee # 0 /\ res.optFee < NullifierMbr) =>
              \A i \in 1..Len(pending.group) : pending.group[i].fee <= res.optFee

\* with a fee that covers the nullifier box the network fee is the rest
C29_CoveredFee ==
    (WithdrawalGroupComposed /\ pending.fee >= NullifierMbr) =>
        /\ NetworkFee = pending.fee - NullifierMbr
        /\ NetworkFee <= pending.fee

\* a group was composed from a non-zero fee below NullifierMbr, and the fee of
\* its no-op wrapped around
C29_WrappedFee ==
    /\ WithdrawalGroupComposed
    /\ res.optFee # 0
    /\ res.optFee < NullifierMbr
    /\ NetworkFee = Pow2(UintBits) - (NullifierMbr - res.optFee)
    /\ NetworkFee > res.optFee

(***************************************************************************)
(* Claims about repeated runs of the deployment pipeline                   *)
(***************************************************************************)
\* the networks whose deployed dir is checked
LiveNetworks == Networks \ {"devnet"}

\* C28: on mainnet and testnet, over any sequence of runs of the pipeline,
\* runs that fail at a later step (the compile of the TSS, the init call, the
\* export) included, at most one application is ever created on the network:
\* once a run has executed deployMainContract, every later run is aborted by
\* the check of the deployed dir.
C28_OneAppPerNetwork ==
    \A n \in LiveNetworks : Cardinality(setup.apps[n]) <= 1

\* a run for testnet or mainnet created an application and failed before the
\* export, and the next run for the network created a second application
C28_SecondApp ==
    /\ setup.network \in LiveNetworks
    /\ setup.run = 2
    /\ setup.start.files = {}
    /\ Cardinality(setup.apps[setup.network]) = 2
    /\ setup.pc = "done"

====
